---------------------------- MODULE Spec2Model ----------------------------
(***************************************************************************)
(* Triage decision engine and entity consolidation of the medical          *)
(* transcription pipeline: ESITriageSystem (backend/triageSystem.py) and   *)
(* AdvancedMedicalNER.merge_entities / entities_overlap (backend/ner.py).  *)
(*                                                                         *)
(* Text is modelled as a sequence of one-character strings, so that        *)
(* lower-casing, substring tests and the regular expressions of the code   *)
(* are computed character by character as Python computes them.            *)
(***************************************************************************)
EXTENDS Integers, Sequences, FiniteSets, TLC

(***************************************************************************)
(* Strings: str.lower(), the `in` substring test, int()                    *)
(***************************************************************************)
UpperAlphabet ==
    <<"A","B","C","D","E","F","G","H","I","J","K","L","M",
      "N","O","P","Q","R","S","T","U","V","W","X","Y","Z">>

LowerAlphabet ==
    <<"a","b","c","d","e","f","g","h","i","j","k","l","m",
      "n","o","p","q","r","s","t","u","v","w","x","y","z">>

DigitChars == <<"0","1","2","3","4","5","6","7","8","9">>

\* U+017F, LATIN SMALL LETTER LONG S: a lower-case letter that str.lower()
\* leaves alone and str.upper() maps to 'S' (TLA+ strings are ASCII, so the
\* character is written by its code point)
LongS == "U+017F"

\* one character of str.lower()
lower_char(c) ==
    IF \E i \in DOMAIN UpperAlphabet : UpperAlphabet[i] = c
    THEN LowerAlphabet[CHOOSE i \in DOMAIN UpperAlphabet : UpperAlphabet[i] = c]
    ELSE c

\* str.lower() leaving every character as it is
lower_unchanged(s) == s

\* str.lower()
lower(s) == [i \in DOMAIN s |-> lower_char(s[i])]

\* one character of str.upper()
upper_char(c) ==
    IF c = LongS THEN "S"
    ELSE IF \E i \in DOMAIN LowerAlphabet : LowerAlphabet[i] = c
    THEN UpperAlphabet[CHOOSE i \in DOMAIN LowerAlphabet : LowerAlphabet[i] = c]
    ELSE c

\* str.upper()
upper(s) == [i \in DOMAIN s |-> upper_char(s[i])]

\* s[i:].startswith(p), i a 1-based position
StartsWith(s, i, p) ==
    /\ i + Len(p) - 1 <= Len(s)
    /\ \A j \in 1..Len(p) : s[i + j - 1] = p[j]

\* Python's `needle in hay` on strings
Contains(needle, hay) ==
    \E i \in 1..(Len(hay) - Len(needle) + 1) : StartsWith(hay, i, needle)

\* `for phrase in phrases: if phrase in text: return True`
\* (text is bound once, as the local variable that holds it is)
AnyPhraseIn(phrases, text) ==
    \E tx \in {text} : \E i \in DOMAIN phrases : Contains(phrases[i], tx)

\* regex class \d
IsDigit(c) == \E i \in DOMAIN DigitChars : DigitChars[i] = c

\* regex class \s
IsSpace(c) == c \in {" ", "\t", "\n", "\r", "\f"}

DigitValue(c) == (CHOOSE i \in DOMAIN DigitChars : DigitChars[i] = c) - 1

\* int() of a non-empty run of decimal digits
RECURSIVE int_of(_)
int_of(ds) ==
    IF Len(ds) = 1 THEN DigitValue(ds[1])
    ELSE 10 * int_of(SubSeq(ds, 1, Len(ds) - 1)) + DigitValue(ds[Len(ds)])

SetMin(S) == CHOOSE x \in S : \A y \in S : x <= y

(***************************************************************************)
(* Regular expressions of check_critical_vitals and check_esi_level_2.     *)
(* Positions are 1-based; a match is [end |-> position after the match,    *)
(* groups |-> the capture groups]; end = 0 means no match.  A group that   *)
(* did not take part in the match (None in Python) is the empty sequence:  *)
(* \d+ never matches the empty string, so the two cannot be confused.      *)
(***************************************************************************)
None == <<>>

NoMatch == [end |-> 0, groups |-> <<>>]

\* position after the greedy \d+ that starts at k
RECURSIVE DigitRunEnd(_, _)
DigitRunEnd(t, k) ==
    IF k <= Len(t) /\ IsDigit(t[k]) THEN DigitRunEnd(t, k + 1) ELSE k

\* position after the greedy \s* that starts at k
RECURSIVE SpaceRunEnd(_, _)
SpaceRunEnd(t, k) ==
    IF k <= Len(t) /\ IsSpace(t[k]) THEN SpaceRunEnd(t, k + 1) ELSE k

\* (\d+) matches at k
NumAt(t, k) == k <= Len(t) /\ IsDigit(t[k])

\* (\d+)/(\d+) matches at k
NumSlashNumAt(t, k) ==
    /\ NumAt(t, k)
    /\ LET e == DigitRunEnd(t, k)
       IN  e <= Len(t) /\ t[e] = "/" /\ NumAt(t, e + 1)

\* `.` matches any character but a newline: .*? may span p..k-1
Dots(t, p, k) == \A j \in p..(k - 1) : t[j] # "\n"

\* .*?(\d+) from p: the first position the lazy .*? can stop at, 0 if none
LazyNum(t, p) ==
    LET ks == {k \in p..Len(t) : NumAt(t, k) /\ Dots(t, p, k)}
    IN  IF ks = {} THEN 0 ELSE SetMin(ks)

\* .*?(\d+)/(\d+) from p
LazyNumSlashNum(t, p) ==
    LET ks == {k \in p..Len(t) : NumSlashNumAt(t, k) /\ Dots(t, p, k)}
    IN  IF ks = {} THEN 0 ELSE SetMin(ks)

Run(t, k) == SubSeq(t, k, DigitRunEnd(t, k) - 1)

\* the two groups and the end of (\d+)/(\d+) matched at k
Pair(t, k) ==
    LET e == DigitRunEnd(t, k)
    IN  [sys |-> Run(t, k), dia |-> Run(t, e + 1), end |-> DigitRunEnd(t, e + 1)]

L_blood_pressure == <<"b","l","o","o","d"," ","p","r","e","s","s","u","r","e">>
L_bp == <<"b","p">>
L_heart_rate == <<"h","e","a","r","t"," ","r","a","t","e">>
L_pulse == <<"p","u","l","s","e">>
L_hr == <<"h","r">>
L_oxygen_saturation == <<"o","x","y","g","e","n"," ","s","a","t","u","r","a","t","i","o","n">>
L_o2_sat == <<"o","2"," ","s","a","t">>
L_spo2 == <<"s","p","o","2">>
L_year == <<"y","e","a","r">>
L_yr == <<"y","r">>
L_s == <<"s">>
L_old == <<"o","l","d">>
L_age == <<"a","g","e">>
L_is == <<"i","s">>

\* bp_pattern tried at position i: the alternatives in their order
bp_match_at(t, i) ==
    LET k1 == IF StartsWith(t, i, L_blood_pressure)
              THEN LazyNumSlashNum(t, i + Len(L_blood_pressure)) ELSE 0
        k2 == IF StartsWith(t, i, L_bp)
              THEN LazyNumSlashNum(t, i + Len(L_bp)) ELSE 0
    IN  IF k1 # 0
        THEN [end |-> Pair(t, k1).end,
              groups |-> <<Pair(t, k1).sys, Pair(t, k1).dia, None, None, None, None>>]
        ELSE IF k2 # 0
        THEN [end |-> Pair(t, k2).end,
              groups |-> <<None, None, Pair(t, k2).sys, Pair(t, k2).dia, None, None>>]
        ELSE IF NumSlashNumAt(t, i)
        THEN [end |-> Pair(t, i).end,
              groups |-> <<None, None, None, None, Pair(t, i).sys, Pair(t, i).dia>>]
        ELSE NoMatch

\* a pattern 'a.*?(\d+)|b.*?(\d+)|c.*?(\d+)' tried at position i
labelled_match_at(t, i, a, b, c) ==
    LET k1 == IF StartsWith(t, i, a) THEN LazyNum(t, i + Len(a)) ELSE 0
        k2 == IF StartsWith(t, i, b) THEN LazyNum(t, i + Len(b)) ELSE 0
        k3 == IF StartsWith(t, i, c) THEN LazyNum(t, i + Len(c)) ELSE 0
    IN  IF k1 # 0
        THEN [end |-> DigitRunEnd(t, k1), groups |-> <<Run(t, k1), None, None>>]
        ELSE IF k2 # 0
        THEN [end |-> DigitRunEnd(t, k2), groups |-> <<None, Run(t, k2), None>>]
        ELSE IF k3 # 0
        THEN [end |-> DigitRunEnd(t, k3), groups |-> <<None, None, Run(t, k3)>>]
        ELSE NoMatch

hr_match_at(t, i) == labelled_match_at(t, i, L_heart_rate, L_pulse, L_hr)

o2_match_at(t, i) == labelled_match_at(t, i, L_oxygen_saturation, L_o2_sat, L_spo2)

\* re.finditer: the leftmost match at or after pos, then on from its end
RECURSIVE bp_finditer(_, _)
bp_finditer(t, pos) ==
    LET starts == {i \in pos..Len(t) : bp_match_at(t, i).end # 0}
    IN  IF starts = {} THEN <<>>
        ELSE LET m == bp_match_at(t, SetMin(starts))
             IN  <<m>> \o bp_finditer(t, m.end)

RECURSIVE hr_finditer(_, _)
hr_finditer(t, pos) ==
    LET starts == {i \in pos..Len(t) : hr_match_at(t, i).end # 0}
    IN  IF starts = {} THEN <<>>
        ELSE LET m == hr_match_at(t, SetMin(starts))
             IN  <<m>> \o hr_finditer(t, m.end)

RECURSIVE o2_finditer(_, _)
o2_finditer(t, pos) ==
    LET starts == {i \in pos..Len(t) : o2_match_at(t, i).end # 0}
    IN  IF starts = {} THEN <<>>
        ELSE LET m == o2_match_at(t, SetMin(starts))
             IN  <<m>> \o o2_finditer(t, m.end)

\* age_pattern tried at position i:
\* (\d+)\s*(?:year|yr)s?\s*old | age\s*(?:is\s*)?(\d+)
age_match_at(t, i) ==
    LET w  == SpaceRunEnd(t, DigitRunEnd(t, i))
        u  == IF StartsWith(t, w, L_year) THEN w + Len(L_year)
              ELSE IF StartsWith(t, w, L_yr) THEN w + Len(L_yr) ELSE 0
        v  == IF u # 0 /\ StartsWith(t, u, L_s) THEN u + 1 ELSE u
        o  == SpaceRunEnd(t, v)
        a  == SpaceRunEnd(t, i + Len(L_age))
        b  == IF StartsWith(t, a, L_is) THEN SpaceRunEnd(t, a + Len(L_is)) ELSE a
    IN  IF NumAt(t, i) /\ u # 0 /\ StartsWith(t, o, L_old)
        THEN [end |-> o + Len(L_old), groups |-> <<Run(t, i), None>>]
        ELSE IF StartsWith(t, i, L_age) /\ NumAt(t, b)
        THEN [end |-> DigitRunEnd(t, b), groups |-> <<None, Run(t, b)>>]
        ELSE NoMatch

\* re.search(age_pattern, transcript_lower): the leftmost match, or NoMatch
age_search(text) ==
    LET t == CHOOSE tx \in {text} : TRUE
        starts == {i \in 1..Len(t) : age_match_at(t, i).end # 0}
    IN  IF starts = {} THEN NoMatch ELSE age_match_at(t, SetMin(starts))

(***************************************************************************)
(* ESITriageSystem.setup_esi_criteria                                      *)
(***************************************************************************)
systolic_bp_low == 70

heart_rate_low == 40

heart_rate_high == 180

oxygen_saturation_low == 85

age_high_risk == 65

\* level_1_criteria['immediate_threats']
immediate_threats ==
    << <<"c","a","r","d","i","a","c"," ","a","r","r","e","s","t">>,  \* 'cardiac arrest'
       <<"r","e","s","p","i","r","a","t","o","r","y"," ","a","r","r","e","s","t">>,  \* 'respiratory arrest'
       <<"p","u","l","s","e","l","e","s","s">>,  \* 'pulseless'
       <<"a","p","n","e","i","c">>,  \* 'apneic'
       <<"u","n","r","e","s","p","o","n","s","i","v","e">>,  \* 'unresponsive'
       <<"u","n","c","o","n","s","c","i","o","u","s">>,  \* 'unconscious'
       <<"c","o","m","a","t","o","s","e">>,  \* 'comatose'
       <<"n","o","t"," ","b","r","e","a","t","h","i","n","g">>,  \* 'not breathing'
       <<"n","o"," ","p","u","l","s","e">>,  \* 'no pulse'
       <<"v","e","n","t","r","i","c","u","l","a","r"," ","f","i","b","r","i","l","l","a","t","i","o","n">>,  \* 'ventricular fibrillation'
       <<"v","e","n","t","r","i","c","u","l","a","r"," ","t","a","c","h","y","c","a","r","d","i","a">>,  \* 'ventricular tachycardia'
       <<"c","o","m","p","l","e","t","e"," ","h","e","a","r","t"," ","b","l","o","c","k">>,  \* 'complete heart block'
       <<"s","e","v","e","r","e"," ","s","h","o","c","k">>,  \* 'severe shock'
       <<"m","a","j","o","r"," ","t","r","a","u","m","a"," ","w","i","t","h"," ","u","n","s","t","a","b","l","e"," ","v","i","t","a","l","s">> >>  \* 'major trauma with unstable vitals'

\* level_2_criteria['high_risk_symptoms']
high_risk_symptoms ==
    << <<"c","h","e","s","t"," ","p","a","i","n">>,  \* 'chest pain'
       <<"s","h","o","r","t","n","e","s","s"," ","o","f"," ","b","r","e","a","t","h">>,  \* 'shortness of breath'
       <<"d","i","f","f","i","c","u","l","t","y"," ","b","r","e","a","t","h","i","n","g">>,  \* 'difficulty breathing'
       <<"s","e","v","e","r","e"," ","a","b","d","o","m","i","n","a","l"," ","p","a","i","n">>,  \* 'severe abdominal pain'
       <<"a","l","t","e","r","e","d"," ","m","e","n","t","a","l"," ","s","t","a","t","u","s">>,  \* 'altered mental status'
       <<"c","o","n","f","u","s","i","o","n">>,  \* 'confusion'
       <<"s","e","v","e","r","e"," ","h","e","a","d","a","c","h","e">>,  \* 'severe headache'
       <<"s","u","d","d","e","n"," ","s","e","v","e","r","e"," ","h","e","a","d","a","c","h","e">>,  \* 'sudden severe headache'
       <<"s","t","r","o","k","e"," ","s","y","m","p","t","o","m","s">>,  \* 'stroke symptoms'
       <<"f","a","c","i","a","l"," ","d","r","o","o","p","i","n","g">>,  \* 'facial drooping'
       <<"s","l","u","r","r","e","d"," ","s","p","e","e","c","h">>,  \* 'slurred speech'
       <<"w","e","a","k","n","e","s","s"," ","o","n"," ","o","n","e"," ","s","i","d","e">>,  \* 'weakness on one side'
       <<"s","y","n","c","o","p","e">>,  \* 'syncope'
       <<"n","e","a","r"," ","s","y","n","c","o","p","e">>,  \* 'near syncope'
       <<"s","e","v","e","r","e"," ","d","e","h","y","d","r","a","t","i","o","n">>,  \* 'severe dehydration'
       <<"a","c","t","i","v","e"," ","b","l","e","e","d","i","n","g">>,  \* 'active bleeding'
       <<"s","e","v","e","r","e"," ","t","r","a","u","m","a">>,  \* 'severe trauma'
       <<"s","e","v","e","r","e"," ","b","u","r","n","s">> >>  \* 'severe burns'

\* level_2_criteria['high_risk_conditions']
high_risk_conditions ==
    << <<"a","c","u","t","e"," ","m","y","o","c","a","r","d","i","a","l"," ","i","n","f","a","r","c","t","i","o","n">>,  \* 'acute myocardial infarction'
       <<"s","t","r","o","k","e">>,  \* 'stroke'
       <<"s","e","p","s","i","s">>,  \* 'sepsis'
       <<"p","u","l","m","o","n","a","r","y"," ","e","m","b","o","l","i","s","m">>,  \* 'pulmonary embolism'
       <<"a","o","r","t","i","c"," ","d","i","s","s","e","c","t","i","o","n">>,  \* 'aortic dissection'
       <<"r","u","p","t","u","r","e","d"," ","a","n","e","u","r","y","s","m">>,  \* 'ruptured aneurysm'
       <<"s","e","v","e","r","e"," ","a","s","t","h","m","a"," ","a","t","t","a","c","k">>,  \* 'severe asthma attack'
       <<"d","i","a","b","e","t","i","c"," ","k","e","t","o","a","c","i","d","o","s","i","s">>,  \* 'diabetic ketoacidosis'
       <<"s","e","v","e","r","e"," ","a","l","l","e","r","g","i","c"," ","r","e","a","c","t","i","o","n">> >>  \* 'severe allergic reaction'

\* level_2_criteria['high_risk_medications']
high_risk_medications ==
    << <<"w","a","r","f","a","r","i","n">>,  \* 'warfarin'
       <<"c","o","u","m","a","d","i","n">>,  \* 'coumadin'
       <<"h","e","p","a","r","i","n">>,  \* 'heparin'
       <<"i","n","s","u","l","i","n"," ","o","v","e","r","d","o","s","e">>,  \* 'insulin overdose'
       <<"c","h","e","m","o","t","h","e","r","a","p","y">>,  \* 'chemotherapy'
       <<"i","m","m","u","n","o","s","u","p","p","r","e","s","s","a","n","t","s">> >>  \* 'immunosuppressants'

\* concerning_terms in check_esi_level_2
concerning_terms ==
    << <<"c","h","e","s","t"," ","p","a","i","n">>,  \* 'chest pain'
       <<"s","h","o","r","t","n","e","s","s"," ","o","f"," ","b","r","e","a","t","h">>,  \* 'shortness of breath'
       <<"c","o","n","f","u","s","i","o","n">>,  \* 'confusion'
       <<"f","a","l","l">> >>  \* 'fall'

\* level_3_criteria['moderate_symptoms']
moderate_symptoms ==
    << <<"m","o","d","e","r","a","t","e"," ","p","a","i","n">>,  \* 'moderate pain'
       <<"f","e","v","e","r">>,  \* 'fever'
       <<"v","o","m","i","t","i","n","g">>,  \* 'vomiting'
       <<"d","i","a","r","r","h","e","a">>,  \* 'diarrhea'
       <<"m","i","n","o","r"," ","h","e","a","d"," ","i","n","j","u","r","y">>,  \* 'minor head injury'
       <<"l","a","c","e","r","a","t","i","o","n"," ","r","e","q","u","i","r","i","n","g"," ","s","u","t","u","r","e","s">>,  \* 'laceration requiring sutures'
       <<"m","o","d","e","r","a","t","e"," ","a","b","d","o","m","i","n","a","l"," ","p","a","i","n">>,  \* 'moderate abdominal pain'
       <<"u","r","i","n","a","r","y"," ","t","r","a","c","t"," ","i","n","f","e","c","t","i","o","n">>,  \* 'urinary tract infection'
       <<"s","i","m","p","l","e"," ","f","r","a","c","t","u","r","e">>,  \* 'simple fracture'
       <<"s","p","r","a","i","n">>,  \* 'sprain'
       <<"c","e","l","l","u","l","i","t","i","s">> >>  \* 'cellulitis'

\* the chronic-condition list with 'pneumonia' added to it
chronic_conditions_with_pneumonia ==
    << <<"d","i","a","b","e","t","e","s">>,
       <<"h","y","p","e","r","t","e","n","s","i","o","n">>,
       <<"a","s","t","h","m","a">>,
       <<"c","o","p","d">>,
       <<"h","e","a","r","t"," ","d","i","s","e","a","s","e">>,
       <<"k","i","d","n","e","y"," ","d","i","s","e","a","s","e">>,
       <<"p","n","e","u","m","o","n","i","a">> >>

\* level_3_criteria['chronic_conditions']
chronic_conditions ==
    << <<"d","i","a","b","e","t","e","s">>,  \* 'diabetes'
       <<"h","y","p","e","r","t","e","n","s","i","o","n">>,  \* 'hypertension'
       <<"a","s","t","h","m","a">>,  \* 'asthma'
       <<"c","o","p","d">>,  \* 'copd'
       <<"h","e","a","r","t"," ","d","i","s","e","a","s","e">>,  \* 'heart disease'
       <<"k","i","d","n","e","y"," ","d","i","s","e","a","s","e">> >>  \* 'kidney disease'

\* level_4_criteria['simple_problems']
simple_problems ==
    << <<"m","i","l","d"," ","p","a","i","n">>,  \* 'mild pain'
       <<"m","i","n","o","r"," ","i","n","j","u","r","y">>,  \* 'minor injury'
       <<"s","i","m","p","l","e"," ","l","a","c","e","r","a","t","i","o","n">>,  \* 'simple laceration'
       <<"m","e","d","i","c","a","t","i","o","n"," ","r","e","f","i","l","l">>,  \* 'medication refill'
       <<"r","o","u","t","i","n","e"," ","f","o","l","l","o","w","-","u","p">>,  \* 'routine follow-up'
       <<"c","o","l","d"," ","s","y","m","p","t","o","m","s">>,  \* 'cold symptoms'
       <<"m","i","n","o","r"," ","r","a","s","h">>,  \* 'minor rash'
       <<"m","i","n","o","r"," ","h","e","a","d","a","c","h","e">>,  \* 'minor headache'
       <<"c","o","n","s","t","i","p","a","t","i","o","n">> >>  \* 'constipation'

\* level_4_criteria['single_resource']
single_resource ==
    << <<"s","i","m","p","l","e"," ","x","-","r","a","y">>,  \* 'simple x-ray'
       <<"b","a","s","i","c"," ","b","l","o","o","d"," ","t","e","s","t">>,  \* 'basic blood test'
       <<"u","r","i","n","e"," ","t","e","s","t">>,  \* 'urine test'
       <<"s","i","m","p","l","e"," ","p","r","e","s","c","r","i","p","t","i","o","n">>,  \* 'simple prescription'
       <<"w","o","u","n","d"," ","c","l","e","a","n","i","n","g">> >>  \* 'wound cleaning'

\* level_5_criteria['minimal_care'] (never consulted by any check)
minimal_care ==
    << <<"m","e","d","i","c","a","t","i","o","n"," ","r","e","q","u","e","s","t">>,  \* 'medication request'
       <<"w","o","r","k"," ","n","o","t","e">>,  \* 'work note'
       <<"b","l","o","o","d"," ","p","r","e","s","s","u","r","e"," ","c","h","e","c","k">>,  \* 'blood pressure check'
       <<"s","i","m","p","l","e"," ","d","r","e","s","s","i","n","g"," ","c","h","a","n","g","e">>,  \* 'simple dressing change'
       <<"c","h","r","o","n","i","c"," ","s","t","a","b","l","e"," ","c","o","n","d","i","t","i","o","n">>,  \* 'chronic stable condition'
       <<"m","i","n","o","r"," ","c","o","m","p","l","a","i","n","t">>,  \* 'minor complaint'
       <<"h","e","a","l","t","h"," ","s","c","r","e","e","n","i","n","g">> >>  \* 'health screening'

(***************************************************************************)
(* The level predicates.  A predicate ends "True", "False" or "KeyError"   *)
(* (entity['text'] on an entity that has no 'text').                       *)
(***************************************************************************)
\* groups[:5:2]: the first group that is not empty, None if there is none
first_systolic(groups) ==
    IF groups[1] # None THEN groups[1]
    ELSE IF groups[3] # None THEN groups[3]
    ELSE groups[5]

\* the loop body over bp_matches: `systolic and systolic < systolic_bp_low`
bp_critical(m) ==
    LET g == first_systolic(m.groups)
    IN  g # None /\ int_of(g) # 0 /\ int_of(g) < systolic_bp_low

\* the loop body over hr_matches: int(match.group(1)) raises on None and the
\* bare except skips the match
hr_critical(m) ==
    /\ m.groups[1] # None
    /\ \/ int_of(m.groups[1]) < heart_rate_low
       \/ int_of(m.groups[1]) > heart_rate_high

\* the loop body over o2_matches
o2_critical(m) ==
    /\ m.groups[1] # None
    /\ int_of(m.groups[1]) < oxygen_saturation_low

check_critical_vitals(transcript) ==
    \E t \in {transcript} :
        \/ \E bp_matches \in {bp_finditer(t, 1)} :
               \E i \in DOMAIN bp_matches : bp_critical(bp_matches[i])
        \/ \E hr_matches \in {hr_finditer(t, 1)} :
               \E i \in DOMAIN hr_matches : hr_critical(hr_matches[i])
        \/ \E o2_matches \in {o2_finditer(t, 1)} :
               \E i \in DOMAIN o2_matches : o2_critical(o2_matches[i])

\* `for e in entities[X]: text = e['text'].lower(); for p in phrases: if p in text: return True`
RECURSIVE entity_loop(_, _)
entity_loop(ents, phrases) ==
    IF ents = <<>> THEN "False"
    ELSE IF "text" \notin DOMAIN Head(ents) THEN "KeyError"
    ELSE IF AnyPhraseIn(phrases, lower(Head(ents).text)) THEN "True"
    ELSE entity_loop(Tail(ents), phrases)

\* `if X in entities:` followed by the loop
category_loop(entities, category, phrases) ==
    IF category \in DOMAIN entities
    THEN entity_loop(entities[category], phrases)
    ELSE "False"

\* check_esi_level_1 testing the DISEASE entities too
check_esi_level_1_with_diseases(entities, transcript) ==
    LET transcript_lower == lower(transcript)
        symptoms == category_loop(entities, "SYMPTOM", immediate_threats)
        diseases == category_loop(entities, "DISEASE", immediate_threats)
    IN  IF AnyPhraseIn(immediate_threats, transcript_lower) THEN "True"
        ELSE IF symptoms # "False" THEN symptoms
        ELSE IF diseases # "False" THEN diseases
        ELSE IF check_critical_vitals(transcript_lower) THEN "True"
        ELSE "False"

check_esi_level_1(entities, transcript) ==
    LET transcript_lower == lower(transcript)
        symptoms == category_loop(entities, "SYMPTOM", immediate_threats)
    IN  IF AnyPhraseIn(immediate_threats, transcript_lower) THEN "True"
        ELSE IF symptoms # "False" THEN symptoms
        ELSE IF check_critical_vitals(transcript_lower) THEN "True"
        ELSE "False"

\* the elderly clause of check_esi_level_2
elderly_concerning(transcript_lower) ==
    \E age_match \in {age_search(transcript_lower)} :
        LET age == int_of(IF age_match.groups[1] # None
                          THEN age_match.groups[1] ELSE age_match.groups[2])
        IN  /\ age_match # NoMatch
            /\ age >= age_high_risk
            /\ AnyPhraseIn(concerning_terms, transcript_lower)

\* check_esi_level_2 testing the transcript for the medication phrases too
check_esi_level_2_with_transcript_medications(entities, transcript) ==
    LET transcript_lower == lower(transcript)
        symptoms    == category_loop(entities, "SYMPTOM", high_risk_symptoms)
        diseases    == category_loop(entities, "DISEASE", high_risk_conditions)
        medications == category_loop(entities, "MEDICATION", high_risk_medications)
    IN  IF AnyPhraseIn(high_risk_symptoms, transcript_lower) THEN "True"
        ELSE IF AnyPhraseIn(high_risk_conditions, transcript_lower) THEN "True"
        ELSE IF AnyPhraseIn(high_risk_medications, transcript_lower) THEN "True"
        ELSE IF symptoms # "False" THEN symptoms
        ELSE IF diseases # "False" THEN diseases
        ELSE IF medications # "False" THEN medications
        ELSE IF elderly_concerning(transcript_lower) THEN "True"
        ELSE "False"

check_esi_level_2(entities, transcript) ==
    LET transcript_lower == lower(transcript)
        symptoms    == category_loop(entities, "SYMPTOM", high_risk_symptoms)
        diseases    == category_loop(entities, "DISEASE", high_risk_conditions)
        medications == category_loop(entities, "MEDICATION", high_risk_medications)
    IN  IF AnyPhraseIn(high_risk_symptoms, transcript_lower) THEN "True"
        ELSE IF AnyPhraseIn(high_risk_conditions, transcript_lower) THEN "True"
        ELSE IF symptoms # "False" THEN symptoms
        ELSE IF diseases # "False" THEN diseases
        ELSE IF medications # "False" THEN medications
        ELSE IF elderly_concerning(transcript_lower) THEN "True"
        ELSE "False"

\* check_esi_level_3 with `procedure_count >= 1`
check_esi_level_3_one_procedure(entities, transcript) ==
    LET transcript_lower == lower(transcript)
        symptoms == category_loop(entities, "SYMPTOM", moderate_symptoms)
        diseases == category_loop(entities, "DISEASE", chronic_conditions)
    IN  IF AnyPhraseIn(moderate_symptoms, transcript_lower) THEN "True"
        ELSE IF symptoms # "False" THEN symptoms
        ELSE IF diseases # "False" THEN diseases
        ELSE IF "PROCEDURE" \in DOMAIN entities /\ Len(entities["PROCEDURE"]) >= 1
        THEN "True"
        ELSE "False"

check_esi_level_3(entities, transcript) ==
    LET transcript_lower == lower(transcript)
        symptoms == category_loop(entities, "SYMPTOM", moderate_symptoms)
        diseases == category_loop(entities, "DISEASE", chronic_conditions)
    IN  IF AnyPhraseIn(moderate_symptoms, transcript_lower) THEN "True"
        ELSE IF symptoms # "False" THEN symptoms
        ELSE IF diseases # "False" THEN diseases
        ELSE IF "PROCEDURE" \in DOMAIN entities /\ Len(entities["PROCEDURE"]) >= 2
        THEN "True"
        ELSE "False"

\* check_esi_level_4 testing the minimal_care phrases too
check_esi_level_4_with_minimal_care(entities, transcript) ==
    LET transcript_lower == lower(transcript)
        symptoms == category_loop(entities, "SYMPTOM", simple_problems)
    IN  IF AnyPhraseIn(simple_problems, transcript_lower) THEN "True"
        ELSE IF symptoms # "False" THEN symptoms
        ELSE IF AnyPhraseIn(single_resource, transcript_lower) THEN "True"
        ELSE IF AnyPhraseIn(minimal_care, transcript_lower) THEN "True"
        ELSE "False"

check_esi_level_4(entities, transcript) ==
    LET transcript_lower == lower(transcript)
        symptoms == category_loop(entities, "SYMPTOM", simple_problems)
    IN  IF AnyPhraseIn(simple_problems, transcript_lower) THEN "True"
        ELSE IF symptoms # "False" THEN symptoms
        ELSE IF AnyPhraseIn(single_resource, transcript_lower) THEN "True"
        ELSE "False"

(***************************************************************************)
(* State                                                                   *)
(***************************************************************************)
VARIABLES
    pc,          \* position in assess_esi_level: "idle", "L1".."L4", "done", "raised"
    entities,    \* the entities argument of the call in progress
    transcript,  \* the transcript argument of the call in progress
    evaluated,   \* the level predicates the call has evaluated, in order
    verdict,     \* the dict the call returned, NoVerdict if it has returned none
    cache,       \* the _cache dict of each triage object
    first,       \* a finished classification call, remembered for comparison
    ml_entities,   \* merge_entities: the model list passed in
    rule_entities, \* merge_entities: the rule list passed in
    merged,        \* merge_entities: the collection returned by the last call
    mpc,           \* merge_entities: "ready" before the call, "returned" after it
    first_merge,   \* a finished merge call, remembered for comparison
    ov_a,        \* entities_overlap: first argument
    ov_b,        \* entities_overlap: second argument
    ov_called,   \* entities_overlap has been applied to ov_a, ov_b
    ov_ab,       \* entities_overlap(ov_a, ov_b)
    ov_ba,       \* entities_overlap(ov_b, ov_a)
    ex_text,         \* extract_entities: the text argument of the last call
    ex_pc,           \* extract_entities: "idle" before any call, "returned" after one
    ex_ml_called,    \* extract_entities: the last call ran extract_entities_ml
    ex_rules_called, \* extract_entities: the last call ran extract_entities_rules
    ex_result,       \* extract_entities: the collection the last call returned
    _pipeline,     \* pipeline_manager._pipeline: NoPipeline, Deleted or an instance
    _last_used,    \* pipeline_manager._last_used: 0 for None, else a time
    _usage_count,  \* pipeline_manager._usage_count
    _lock,         \* pipeline_manager._lock: the thread that holds it, or "free"
    current_time,  \* the local current_time of the get_pipeline call that holds the lock
    clock,         \* time.time(), in seconds
    created,       \* the number of MedicalPipelineIntegrator instances constructed
    handed_out,    \* the number of times get_pipeline has returned the newest instance
    intact,        \* the instances whose transcriber and NER models are not deleted
    outcomes,      \* how the get_pipeline calls so far have ended
    req            \* the request each server thread is handling, with its locals

vars == <<pc, entities, transcript, evaluated, verdict, cache, first,
          ml_entities, rule_entities, merged, mpc, first_merge,
          ov_a, ov_b, ov_called, ov_ab, ov_ba,
          ex_text, ex_pc, ex_ml_called, ex_rules_called, ex_result,
          _pipeline, _last_used, _usage_count, _lock, current_time, clock,
          created, handed_out, intact, outcomes, req>>

triage_vars == <<pc, entities, transcript, evaluated, verdict, cache>>

merge_vars == <<ml_entities, rule_entities, merged>>

overlap_vars == <<ov_a, ov_b, ov_called, ov_ab, ov_ba>>

extract_vars == <<ex_text, ex_pc, ex_ml_called, ex_rules_called, ex_result>>

manager_vars == <<_pipeline, _last_used, _usage_count, _lock, current_time,
                  created, handed_out, intact, outcomes>>

service_vars == <<manager_vars, clock, req>>

core_vars == <<triage_vars, first, mpc, merge_vars, first_merge, overlap_vars, extract_vars>>

Categories == {"SYMPTOM", "MEDICATION", "DISEASE", "PROCEDURE", "ANATOMY"}

EmptyDict == <<>>

NoVerdict == [triage_level |-> 0]

NoCall == [outcome |-> "none"]

(***************************************************************************)
(* Classifier inputs                                                       *)
(***************************************************************************)
T_empty == <<>>  \* ''
T_unresponsive == <<"p","a","t","i","e","n","t"," ","i","s"," ","u","n","r","e","s","p","o","n","s","i","v","e",","," ","n","o","t"," ","b","r","e","a","t","h","i","n","g">>  \* 'patient is unresponsive, not breathing'
T_chest_pain == <<"p","a","t","i","e","n","t"," ","r","e","p","o","r","t","s"," ","c","h","e","s","t"," ","p","a","i","n"," ","a","n","d"," ","s","h","o","r","t","n","e","s","s"," ","o","f"," ","b","r","e","a","t","h">>  \* 'patient reports chest pain and shortness of breath'
T_arrest_chest_pain == <<"C","a","r","d","i","a","c"," ","a","r","r","e","s","t"," ","a","f","t","e","r"," ","c","h","e","s","t"," ","p","a","i","n">>  \* 'Cardiac arrest after chest pain'
T_fever == <<"f","e","v","e","r"," ","a","n","d"," ","v","o","m","i","t","i","n","g">>  \* 'fever and vomiting'
T_refill == <<"h","e","r","e"," ","f","o","r"," ","a"," ","m","e","d","i","c","a","t","i","o","n"," ","r","e","f","i","l","l">>  \* 'here for a medication refill'
T_pneumonia == <<"f","o","l","l","o","w","-","u","p"," ","f","o","r"," ","p","n","e","u","m","o","n","i","a">>  \* 'follow-up for pneumonia'
T_all_levels == <<"p","u","l","s","e","l","e","s","s",","," ","s","t","r","o","k","e",","," ","f","e","v","e","r",","," ","m","i","l","d"," ","p","a","i","n">>  \* 'pulseless, stroke, fever, mild pain'
T_bp_low == <<"b","p"," ","6","0","/","4","0">>  \* 'bp 60/40'
T_bp_normal == <<"b","l","o","o","d"," ","p","r","e","s","s","u","r","e"," ","1","2","0","/","8","0">>  \* 'blood pressure 120/80'
T_heart_rate == <<"h","e","a","r","t"," ","r","a","t","e"," ","3","0">>  \* 'heart rate 30'
T_elderly_fall == <<"7","0"," ","y","e","a","r","s"," ","o","l","d"," ","h","a","d"," ","a"," ","f","a","l","l">>  \* '70 years old had a fall'
T_young_fall == <<"a","g","e"," ","3","0"," ","h","a","d"," ","a"," ","f","a","l","l">>  \* 'age 30 had a fall'
T_work_note == <<"n","e","e","d","s"," ","a"," ","w","o","r","k"," ","n","o","t","e">>  \* 'needs a work note'
T_sepsis_sprain == <<"S","e","p","s","i","s"," ","a","n","d"," ","a"," ","s","p","r","a","i","n">>  \* 'Sepsis and a sprain'
T_xray_fever == <<"s","i","m","p","l","e"," ","x","-","r","a","y",","," ","f","e","v","e","r">>  \* 'simple x-ray, fever'
T_long_s_stroke == <<LongS,"t","r","o","k","e">>  \* '\u017ftroke'
T_takes_warfarin == <<"p","a","t","i","e","n","t"," ","t","a","k","e","s"," ","w","a","r","f","a","r","i","n">>  \* 'patient takes warfarin'
T_hypertension == <<"h","i","s","t","o","r","y"," ","o","f"," ","h","y","p","e","r","t","e","n","s","i","o","n">>  \* 'history of hypertension'
T_upper_fever == <<"F","E","V","E","R">>  \* 'FEVER'
X_pneumonia == <<"p","n","e","u","m","o","n","i","a">>  \* 'pneumonia'
X_pulseless == <<"P","u","l","s","e","l","e","s","s">>  \* 'Pulseless'
X_chest_pain == <<"c","h","e","s","t"," ","p","a","i","n">>  \* 'chest pain'
X_stroke == <<"s","t","r","o","k","e">>  \* 'stroke'
X_diabetes == <<"d","i","a","b","e","t","e","s">>  \* 'diabetes'
X_warfarin == <<"W","a","r","f","a","r","i","n"," ","5","m","g">>  \* 'Warfarin 5mg'
X_mild_pain == <<"m","i","l","d"," ","p","a","i","n">>  \* 'mild pain'
X_fever == <<"f","e","v","e","r">>  \* 'fever'
X_ct_scan == <<"C","T"," ","s","c","a","n">>  \* 'CT scan'
X_mri == <<"M","R","I">>  \* 'MRI'
X_cardiac_arrest == <<"C","a","r","d","i","a","c"," ","a","r","r","e","s","t">>  \* 'Cardiac arrest'
X_knee == <<"k","n","e","e">>  \* 'knee'

Transcripts ==
    { T_empty, T_unresponsive, T_chest_pain, T_arrest_chest_pain, T_fever,
      T_refill, T_pneumonia, T_all_levels, T_bp_low, T_bp_normal,
      T_heart_rate, T_elderly_fall, T_young_fall, T_work_note,
      T_sepsis_sprain, T_xray_fever, T_long_s_stroke, T_upper_fever,
      T_takes_warfarin, T_hypertension }

\* an entity as the extractors build it
Entity(text, label) ==
    [text |-> text, label |-> label, confidence |-> 100,
     start |-> 0, end |-> Len(text), source |-> "rule-based"]

\* an entity dict that lacks the 'text' key
NoTextEntity(label) ==
    [label |-> label, confidence |-> 100, start |-> 0, end |-> 4, source |-> "rule-based"]

Collection(symptom, medication, disease, procedure, anatomy) ==
    [SYMPTOM |-> symptom, MEDICATION |-> medication, DISEASE |-> disease,
     PROCEDURE |-> procedure, ANATOMY |-> anatomy]

E_empty == Collection(<<>>, <<>>, <<>>, <<>>, <<>>)
E_no_categories == [c \in {} |-> <<>>]
E_pneumonia == Collection(<<>>, <<>>, <<Entity(X_pneumonia, "DISEASE")>>, <<>>, <<>>)
E_pulseless == Collection(<<Entity(X_pulseless, "SYMPTOM")>>, <<>>, <<>>, <<>>, <<>>)
E_chest_pain == Collection(<<Entity(X_chest_pain, "SYMPTOM")>>, <<>>, <<>>, <<>>, <<>>)
E_stroke == Collection(<<>>, <<>>, <<Entity(X_stroke, "DISEASE")>>, <<>>, <<>>)
E_diabetes == Collection(<<>>, <<>>, <<Entity(X_diabetes, "DISEASE")>>, <<>>, <<>>)
E_warfarin == Collection(<<>>, <<Entity(X_warfarin, "MEDICATION")>>, <<>>, <<>>, <<>>)
E_mild_pain == Collection(<<Entity(X_mild_pain, "SYMPTOM")>>, <<>>, <<>>, <<>>, <<>>)
E_fever_knee == Collection(<<Entity(X_knee, "SYMPTOM"), Entity(X_fever, "SYMPTOM")>>, <<>>, <<>>, <<>>, <<>>)
E_procedures == Collection(<<>>, <<>>, <<>>, <<Entity(X_ct_scan, "PROCEDURE"), Entity(X_mri, "PROCEDURE")>>, <<>>)
E_one_procedure == [PROCEDURE |-> <<Entity(X_mri, "PROCEDURE")>>]
E_arrest_disease == Collection(<<>>, <<Entity(X_cardiac_arrest, "MEDICATION")>>, <<Entity(X_cardiac_arrest, "DISEASE")>>, <<>>, <<>>)
E_symptom_no_text == Collection(<<NoTextEntity("SYMPTOM")>>, <<>>, <<>>, <<>>, <<>>)
E_disease_no_text == Collection(<<>>, <<>>, <<Entity(X_diabetes, "DISEASE"), NoTextEntity("DISEASE")>>, <<>>, <<>>)

(***************************************************************************)
(* Transcripts with vital-sign readings and age statements                 *)
(***************************************************************************)
\* str(n) of a natural number
RECURSIVE str_of(_)
str_of(n) ==
    IF n < 10 THEN <<DigitChars[n + 1]>>
    ELSE Append(str_of(n \div 10), DigitChars[(n % 10) + 1])

\* the largest systolic value of the generated blood-pressure readings
MaxSystolic == 72

HeartRateLabels == {L_heart_rate, L_pulse, L_hr}

OxygenLabels == {L_oxygen_saturation, L_o2_sat, L_spo2}

\* 'blood pressure ', 'bp ' and no label
PressureLabels == {L_blood_pressure \o <<" ">>, L_bp \o <<" ">>, <<>>}

\* what stands between a label and its number: ' ', ': ', ' is '
Separators == {<<" ">>, <<":", " ">>, <<" ", "i", "s", " ">>}

HeartRates == {0, 39, 40, 41, 100, 179, 180, 181, 250}

Saturations == {0, 84, 85, 86, 100}

Systolics == (0..MaxSystolic) \cup {120, 200}

Diastolics == {40, 110}

\* '<label><separator><n>', as in 'heart rate: 30'
LabelledReading(label, separator, n) == label \o separator \o str_of(n)

\* '<label><n>/<m>', as in 'bp 60/40'
PressureReading(label, n, m) == label \o str_of(n) \o <<"/">> \o str_of(m)

HeartRateTranscripts ==
    {LabelledReading(l, s, n) : l \in HeartRateLabels, s \in Separators, n \in HeartRates}

OxygenTranscripts ==
    {LabelledReading(l, s, n) : l \in OxygenLabels, s \in Separators, n \in Saturations}

PressureTranscripts ==
    {PressureReading(l, n, m) : l \in PressureLabels, n \in Systolics, m \in Diastolics}

\* transcripts with several readings, or with words that hold a label
T_two_heart_rates == <<"h","e","a","r","t"," ","r","a","t","e"," ","8","0",","," ","l","a","t","e","r"," ","h","e","a","r","t"," ","r","a","t","e"," ","3","0">>  \* 'heart rate 80, later heart rate 30'
T_bp_then_heart_rate == <<"b","p"," ","1","2","0","/","8","0",","," ","h","e","a","r","t"," ","r","a","t","e"," ","1","9","0">>  \* 'bp 120/80, heart rate 190'
T_two_pressures == <<"b","l","o","o","d"," ","p","r","e","s","s","u","r","e"," ","1","2","0","/","8","0"," ","t","h","e","n"," ","6","0","/","4","0">>  \* 'blood pressure 120/80 then 60/40'
T_normal_readings == <<"b","p"," ","1","2","0","/","8","0",","," ","h","e","a","r","t"," ","r","a","t","e"," ","8","0",","," ","o","x","y","g","e","n"," ","s","a","t","u","r","a","t","i","o","n"," ","9","8">>  \* 'bp 120/80, heart rate 80, oxygen saturation 98'
T_throat_heart_rate == <<"s","o","r","e"," ","t","h","r","o","a","t",","," ","h","e","a","r","t"," ","r","a","t","e"," ","3","0">>  \* 'sore throat, heart rate 30'
T_pulse_weak_heart_rate == <<"p","u","l","s","e"," ","w","e","a","k",","," ","h","e","a","r","t"," ","r","a","t","e"," ","3","0">>  \* 'pulse weak, heart rate 30'
T_three_days_saturation == <<"c","o","u","g","h"," ","f","o","r"," ","t","h","r","e","e"," ","d","a","y","s",","," ","o","x","y","g","e","n"," ","s","a","t","u","r","a","t","i","o","n"," ","8","0">>  \* 'cough for three days, oxygen saturation 80'
T_hr_then_saturation == <<"h","e","a","r","t"," ","r","a","t","e"," ","8","0",","," ","o","x","y","g","e","n"," ","s","a","t","u","r","a","t","i","o","n"," ","8","0">>  \* 'heart rate 80, oxygen saturation 80'

MultiReadingTranscripts ==
    { T_two_heart_rates,
      T_bp_then_heart_rate,
      T_two_pressures,
      T_normal_readings,
      T_throat_heart_rate,
      T_pulse_weak_heart_rate,
      T_three_days_saturation,
      T_hr_then_saturation }

Ages == {30, 64, 65, 66, 80}

P_years_old == <<" ","y","e","a","r","s"," ","o","l","d">>  \* ' years old'
P_year_old == <<" ","y","e","a","r"," ","o","l","d">>  \* ' year old'
P_age == <<"a","g","e"," ">>  \* 'age '
P_fall == <<","," ","h","a","d"," ","a"," ","f","a","l","l">>  \* ', had a fall'
P_rash == <<","," ","h","a","s"," ","a"," ","r","a","s","h">>  \* ', has a rash'

\* '<n> years old', '<n> year old', 'age <n>'
AgeStatements(n) ==
    {str_of(n) \o P_years_old, str_of(n) \o P_year_old, P_age \o str_of(n)}

\* an age statement followed by a concerning phrase ('fall') or by none
AgeTranscripts ==
    {a \o p : a \in UNION {AgeStatements(n) : n \in Ages}, p \in {P_fall, P_rash}}

\* age statements after another number that the age pattern reads as an age,
\* and an age statement in a transcript that satisfies Level 1
T_triage_note_elderly_fall == <<"t","r","i","a","g","e"," ","3","."," ","p","a","t","i","e","n","t"," ","i","s"," ","8","0"," ","y","e","a","r","s"," ","o","l","d",","," ","h","a","d"," ","a"," ","f","a","l","l">>  \* 'triage 3. patient is 80 years old, had a fall'
T_son_and_elderly_fall == <<"s","o","n"," ","i","s"," ","4","0"," ","y","e","a","r","s"," ","o","l","d",","," ","p","a","t","i","e","n","t"," ","i","s"," ","8","0"," ","y","e","a","r","s"," ","o","l","d"," ","a","n","d"," ","h","a","d"," ","a"," ","f","a","l","l">>  \* 'son is 40 years old, patient is 80 years old and had a fall'
T_elderly_pulseless == <<"8","0"," ","y","e","a","r","s"," ","o","l","d",","," ","p","u","l","s","e","l","e","s","s"," ","a","f","t","e","r"," ","a"," ","f","a","l","l">>  \* '80 years old, pulseless after a fall'

ReadingTranscripts ==
    HeartRateTranscripts \cup OxygenTranscripts \cup PressureTranscripts
        \cup MultiReadingTranscripts \cup AgeTranscripts
        \cup {T_triage_note_elderly_fall, T_son_and_elderly_fall, T_elderly_pulseless}

ReadingEntities == {E_empty, E_diabetes}

EntityInputs ==
    { E_empty, E_no_categories, E_pneumonia, E_pulseless, E_chest_pain,
      E_stroke, E_diabetes, E_warfarin, E_mild_pain, E_fever_knee,
      E_procedures, E_one_procedure, E_symptom_no_text, E_disease_no_text,
      E_arrest_disease }

\* uuid.uuid4().hex[:8] and datetime.now().isoformat(): fresh on every call
AssessmentIds == {"3f9a1c07", "b27e40d5"}

Timestamps == {"2024-05-01T10:00:00", "2024-05-01T10:00:01"}

(***************************************************************************)
(* ESITriageSystem                                                         *)
(***************************************************************************)
\* clear_cache: hasattr(self, '_cache') always holds after __init__
clear_cache(c) == EmptyDict

\* create_esi_response with the priority and color arguments stored in each
\* other's field
create_esi_response_swapped(level, priority, color, recommendation, wait_time, id, now) ==
    [triage_level |-> level,
     priority |-> color,
     color_code |-> priority,
     recommendation |-> recommendation,
     wait_time |-> wait_time,
     esi_version |-> "4.0",
     assessment_id |-> id,
     timestamp |-> now,
     confidence |-> IF level <= 2 THEN "HIGH" ELSE IF level = 3 THEN "MEDIUM" ELSE "LOW"]

\* create_esi_response with `level < 2` for `level <= 2`
create_esi_response_strict(level, priority, color, recommendation, wait_time, id, now) ==
    [triage_level |-> level,
     priority |-> priority,
     color_code |-> color,
     recommendation |-> recommendation,
     wait_time |-> wait_time,
     esi_version |-> "4.0",
     assessment_id |-> id,
     timestamp |-> now,
     confidence |-> IF level < 2 THEN "HIGH" ELSE IF level = 3 THEN "MEDIUM" ELSE "LOW"]

\* create_esi_response with `level >= 3` for `level == 3`
create_esi_response_medium_default(level, priority, color, recommendation, wait_time, id, now) ==
    [triage_level |-> level,
     priority |-> priority,
     color_code |-> color,
     recommendation |-> recommendation,
     wait_time |-> wait_time,
     esi_version |-> "4.0",
     assessment_id |-> id,
     timestamp |-> now,
     confidence |-> IF level <= 2 THEN "HIGH" ELSE IF level >= 3 THEN "MEDIUM" ELSE "LOW"]

create_esi_response(level, priority, color, recommendation, wait_time, id, now) ==
    [triage_level |-> level,
     priority |-> priority,
     color_code |-> color,
     recommendation |-> recommendation,
     wait_time |-> wait_time,
     esi_version |-> "4.0",
     assessment_id |-> id,
     timestamp |-> now,
     confidence |-> IF level <= 2 THEN "HIGH" ELSE IF level = 3 THEN "MEDIUM" ELSE "LOW"]

\* the condition of the branch of assess_esi_level that tests `level`
level_predicate(level, ents, text) ==
    CASE level = 1 -> check_esi_level_1(ents, text)
      [] level = 2 -> check_esi_level_2(ents, text)
      [] level = 3 -> check_esi_level_3(ents, text)
      [] level = 4 -> check_esi_level_4(ents, text)

\* the return statement of the branch of assess_esi_level for `level`
\* (the wait bounds of levels 2..5 start with U+2264 in the source, written <= here)
branch_response(level, id, now) ==
    CASE level = 1 -> create_esi_response(1, "IMMEDIATE", "RED",
                         "Immediate life-saving intervention required", "0 minutes", id, now)
      [] level = 2 -> create_esi_response(2, "EMERGENT", "ORANGE",
                         "High-risk situation - should not wait", "<=10 minutes", id, now)
      [] level = 3 -> create_esi_response(3, "URGENT", "YELLOW",
                         "Many resources needed - urgent care", "<=30 minutes", id, now)
      [] level = 4 -> create_esi_response(4, "LESS URGENT", "GREEN",
                         "One resource needed - less urgent", "<=60 minutes", id, now)
      [] level = 5 -> create_esi_response(5, "NON-URGENT", "BLUE",
                         "No resources needed - non-urgent", "<=120 minutes", id, now)

\* the level assess_esi_level returns for an input, 0 when it raises
RECURSIVE ladder(_, _, _)
ladder(level, ents, text) ==
    IF level = 5 THEN 5
    ELSE CHOOSE out \in
            { IF holds = "True" THEN level
              ELSE IF holds = "False" THEN ladder(level + 1, ents, text)
              ELSE 0 : holds \in {level_predicate(level, ents, text)} } : TRUE

esi_level(ents, text) == ladder(1, ents, text)

\* the elif chain with the Level-2 branch placed after the Level-3 branch
next_branch_reordered(level) ==
    CASE level = 1 -> 3 [] level = 3 -> 2 [] level = 2 -> 4 [] level = 4 -> 5

\* the elif chain: the position reached when the predicate of `level` is false
next_branch(level) == level + 1

Position(level) ==
    CASE level = 1 -> "L1" [] level = 2 -> "L2" [] level = 3 -> "L3"
      [] level = 4 -> "L4" [] level = 5 -> "else"

\* comprehensive_triage / assess_triage_level enter assess_esi_level, which
\* first clears the cache
Enter(TS, ES, objects) ==
    /\ pc \in {"idle", "done", "raised"}
    /\ \E t \in TS, e \in ES :
         /\ transcript' = t
         /\ entities' = e
    /\ cache' = [o \in DOMAIN cache |->
                    IF o \in objects THEN clear_cache(cache[o]) ELSE cache[o]]
    /\ evaluated' = <<>>
    /\ verdict' = NoVerdict
    /\ pc' = "L1"

\* one branch of the if/elif chain of assess_esi_level
Branch(level) ==
    /\ pc = Position(level)
    /\ evaluated' = Append(evaluated, level)
    /\ \E holds \in {level_predicate(level, entities, transcript)} :
           CASE holds = "True" ->
                  /\ \E id \in AssessmentIds, now \in Timestamps :
                        verdict' = branch_response(level, id, now)
                  /\ pc' = "done"
             [] holds = "False" /\ Position(next_branch(level)) = "else" ->
                  /\ \E id \in AssessmentIds, now \in Timestamps :
                        verdict' = branch_response(next_branch(level), id, now)
                  /\ pc' = "done"
             [] holds = "False" /\ Position(next_branch(level)) # "else" ->
                  /\ verdict' = verdict
                  /\ pc' = Position(next_branch(level))
             [] OTHER ->
                  /\ verdict' = verdict
                  /\ pc' = "raised"
    /\ UNCHANGED <<entities, transcript, cache>>

(***************************************************************************)
(* AdvancedMedicalNER.entities_overlap and merge_entities                  *)
(***************************************************************************)
\* confidence is in hundredths: 70 is the 0.7 of merge_entities
HighConfidence == 70

MaxPos == 3

MaxOffset == 4

\* entities_overlap with < for <=: spans that touch count as overlapping
entities_overlap_closed(entity1, entity2) ==
    ~ (entity1.end < entity2.start \/ entity2.end < entity1.start)

\* entities_overlap that only tests whether entity1 starts inside entity2
entities_overlap_one_sided(entity1, entity2) ==
    entity2.start <= entity1.start /\ entity1.start < entity2.end

entities_overlap(entity1, entity2) ==
    ~ (entity1.end <= entity2.start \/ entity2.end <= entity1.start)

\* the entities dict kept from the call before instead of built anew
StaleCollection == merged

\* the dict merge_entities starts from
NewCollection == [c \in Categories |-> <<>>]

\* `for entity in ml_entities: if entity['confidence'] > 0.7: ...`
\* the first loop's body with entities.setdefault(label, []).append(entity)
\* for the `if label in entities` test
admit_high_confidence_setdefault(entity, collection) ==
    IF entity.confidence > HighConfidence
    THEN [c \in DOMAIN collection \cup {entity.label} |->
             IF c = entity.label
             THEN (IF c \in DOMAIN collection THEN Append(collection[c], entity) ELSE <<entity>>)
             ELSE collection[c]]
    ELSE collection

\* the body of the first loop admitting an entity only if its bucket holds
\* nothing that overlaps it
admit_high_confidence_if_free(entity, collection) ==
    IF /\ entity.confidence > HighConfidence
       /\ entity.label \in DOMAIN collection
       /\ ~ \E i \in DOMAIN collection[entity.label] :
                entities_overlap(entity, collection[entity.label][i])
    THEN [collection EXCEPT ![entity.label] = Append(@, entity)]
    ELSE collection

\* the body of the first loop: `if entity['confidence'] > 0.7: ...`
admit_high_confidence(entity, collection) ==
    IF entity.confidence > HighConfidence /\ entity.label \in DOMAIN collection
    THEN [collection EXCEPT ![entity.label] = Append(@, entity)]
    ELSE collection

\* `for entity in ml_entities:` (first loop); each iteration works on the
\* collection the one before it left
RECURSIVE high_confidence_pass(_, _)
high_confidence_pass(ml, collection) ==
    IF ml = <<>> THEN collection
    ELSE CHOOSE out \in { high_confidence_pass(Tail(ml), c) :
                            c \in {admit_high_confidence(Head(ml), collection)} } : TRUE

\* the overlap scan of the rule pass looking at the entity's own bucket only
overlaps_any_own_bucket(entity, collection) ==
    /\ entity.label \in DOMAIN collection
    /\ \E i \in DOMAIN collection[entity.label] :
          entities_overlap(entity, collection[entity.label][i])

\* the overlap scan of the rule pass: every bucket of the collection
overlaps_any(entity, collection) ==
    \E label \in DOMAIN collection :
        \E i \in DOMAIN collection[label] :
            entities_overlap(entity, collection[label][i])

\* the body of the second loop appending a re-tagged copy of the entity
admit_rule_retagged(rule_entity, collection) ==
    IF ~ overlaps_any(rule_entity, collection) /\ rule_entity.label \in DOMAIN collection
    THEN [collection EXCEPT ![rule_entity.label] =
             Append(@, [rule_entity EXCEPT !.source = "hybrid"])]
    ELSE collection

\* the body of the second loop
admit_rule(rule_entity, collection) ==
    IF ~ overlaps_any(rule_entity, collection) /\ rule_entity.label \in DOMAIN collection
    THEN [collection EXCEPT ![rule_entity.label] = Append(@, rule_entity)]
    ELSE collection

\* `for rule_entity in rule_entities:`
RECURSIVE rule_pass(_, _)
rule_pass(rules, collection) ==
    IF rules = <<>> THEN collection
    ELSE CHOOSE out \in { rule_pass(Tail(rules), c) :
                            c \in {admit_rule(Head(rules), collection)} } : TRUE

\* the scan of the low-confidence pass leaving the loop after the first
\* entity of the bucket
overlaps_bucket_first_only(entity, bucket) ==
    bucket # <<>> /\ entities_overlap(entity, bucket[1])

\* the overlap scan of the low-confidence pass: the entity's own bucket
overlaps_bucket(entity, bucket) ==
    \E i \in DOMAIN bucket : entities_overlap(entity, bucket[i])

\* the body of the third loop scanning every bucket, as the rule pass does
admit_low_confidence_any_bucket(entity, collection) ==
    IF /\ entity.confidence <= HighConfidence
       /\ entity.label \in DOMAIN collection
       /\ ~ overlaps_any(entity, collection)
    THEN [collection EXCEPT ![entity.label] = Append(@, entity)]
    ELSE collection

\* the body of the third loop: `if entity['confidence'] <= 0.7: ...`
admit_low_confidence(entity, collection) ==
    IF /\ entity.confidence <= HighConfidence
       /\ entity.label \in DOMAIN collection
       /\ ~ overlaps_bucket(entity, collection[entity.label])
    THEN [collection EXCEPT ![entity.label] = Append(@, entity)]
    ELSE collection

\* `for entity in ml_entities:` (third loop)
RECURSIVE low_confidence_pass(_, _)
low_confidence_pass(ml, collection) ==
    IF ml = <<>> THEN collection
    ELSE CHOOSE out \in { low_confidence_pass(Tail(ml), c) :
                            c \in {admit_low_confidence(Head(ml), collection)} } : TRUE

merge_entities(ml, rules) ==
    CHOOSE out \in { low_confidence_pass(ml, after_rules) :
                       after_rules \in { rule_pass(rules, after_high) :
                           after_high \in {high_confidence_pass(ml, NewCollection)} } } : TRUE

(***************************************************************************)
(* Merge inputs: entities over the offsets 0..MaxPos of a transcript       *)
(***************************************************************************)
SourceText == <<"c","o","u","g","h","s">>

Spans(n) == {s \in (0..n) \X (0..n) : s[1] < s[2]}

\* extract_entities_ml: entity_mapping maps unknown groups to OTHER
ModelEntities ==
    { [text |-> SubSeq(SourceText, s[1] + 1, s[2]), label |-> l, confidence |-> c,
       start |-> s[1], end |-> s[2], source |-> "transformer"] :
      s \in Spans(MaxPos), l \in {"SYMPTOM", "DISEASE", "OTHER"}, c \in {HighConfidence, 90} }

\* extract_entities_rules: confidence 1.0
RuleEntities ==
    { [text |-> SubSeq(SourceText, s[1] + 1, s[2]), label |-> l, confidence |-> 100,
       start |-> s[1], end |-> s[2], source |-> "rule-based"] :
      s \in Spans(MaxPos), l \in {"SYMPTOM", "DISEASE"} }

\* the lists of at most two elements of S
UpToTwo(S) == {<<>>} \cup {<<x>> : x \in S} \cup {<<x, y>> : x \in S, y \in S}

\* the entities of example 6 of the behaviour examples: a model SYMPTOM entity
\* of confidence 0.9 over [0,5) and a rule SYMPTOM entity over [2,8)
X_headache == <<"h","e","a","d","a","c","h","e">>  \* 'headache'

M_example == [text |-> SubSeq(X_headache, 1, 5), label |-> "SYMPTOM", confidence |-> 90,
              start |-> 0, end |-> 5, source |-> "transformer"]

R_example == [text |-> SubSeq(X_headache, 3, 8), label |-> "SYMPTOM", confidence |-> 100,
              start |-> 2, end |-> 8, source |-> "rule-based"]

ModelLists == UpToTwo(ModelEntities) \cup {<<M_example>>}

RuleLists == UpToTwo(RuleEntities) \cup {<<R_example>>}

\* merge_entities, called by extract_entities with the two extractors' lists
MergeEntities(MLs, RLs) ==
    /\ \E ml \in MLs, rules \in RLs :
          /\ ml_entities' = ml
          /\ rule_entities' = rules
          /\ merged' = merge_entities(ml, rules)
    /\ mpc' = "returned"

(***************************************************************************)
(* AdvancedMedicalNER.extract_entities                                     *)
(***************************************************************************)
\* str.strip() taking off blanks only
strip_blanks_only(s) ==
    LET kept == {i \in DOMAIN s : s[i] # " "}
    IN  IF kept = {} THEN <<>>
        ELSE SubSeq(s, SetMin(kept), CHOOSE i \in kept : \A j \in kept : j <= i)

\* str.strip(): the text without its leading and trailing whitespace
strip(s) ==
    LET kept == {i \in DOMAIN s : ~ IsSpace(s[i])}
    IN  IF kept = {} THEN <<>>
        ELSE SubSeq(s, SetMin(kept), CHOOSE i \in kept : \A j \in kept : j <= i)

\* the texts extract_entities is called with
X_blank == <<" ">>  \* ' '
X_whitespace == <<" ", "\t", "\n", "\r", " ">>  \* ' \t\n\r '
X_newline == <<"\n">>  \* '\n'
X_padded_cough == <<" ", "c", "o", "u", "g", "h", "\n">>  \* ' cough\n'

NerTexts == {<<>>, X_blank, X_whitespace, X_newline, SourceText, X_padded_cough}

\* what extract_entities_ml can return: the list the BioBERT pipeline finds,
\* [] when the pipeline raises
MLOutcomes == UpToTwo({e \in ModelEntities : e.end <= 2})

\* what extract_entities_rules can return: the list medspacy finds, [] when
\* it raises
RuleOutcomes == UpToTwo({e \in RuleEntities : e.start >= 1 /\ e.end <= 2})

\* extract_entities
ExtractEntities ==
    /\ \E text \in NerTexts :
         /\ ex_text' = text
         /\ IF text = <<>> \/ strip(text) = <<>>
            THEN /\ ex_ml_called' = FALSE
                 /\ ex_rules_called' = FALSE
                 /\ ex_result' = [c \in Categories |-> <<>>]
            ELSE /\ ex_ml_called' = TRUE
                 /\ ex_rules_called' = TRUE
                 /\ \E ml \in MLOutcomes, rules \in RuleOutcomes :
                       ex_result' = merge_entities(ml, rules)
    /\ ex_pc' = "returned"

\* entities_overlap applied to a pair of entities, in both orders
EntitiesOverlap ==
    /\ ~ ov_called
    /\ ov_ab' = entities_overlap(ov_a, ov_b)
    /\ ov_ba' = entities_overlap(ov_b, ov_a)
    /\ ov_called' = TRUE
    /\ UNCHANGED <<ov_a, ov_b>>

(***************************************************************************)
(* The web service: ThreadSafePipelineManager, upload_and_process and       *)
(* force_cleanup of app.py, process_single_audio of mainPipeline.py         *)
(***************************************************************************)
\* self._max_usage
_max_usage == 100

\* the idle time after which get_pipeline recycles the instance, in seconds
IdleSeconds == 3600

\* self._pipeline = None
NoPipeline == 0

\* the state of the attribute between `del self._pipeline` and
\* `self._pipeline = None`
Deleted == -1

\* config["audio_settings"]["max_file_size_mb"]
max_file_size_mb == 100

\* the condition of get_pipeline with > for >=
recycle_due_late(pipeline, usage_count, last_used, now) ==
    \/ pipeline = NoPipeline
    \/ usage_count > _max_usage
    \/ (last_used # 0 /\ now - last_used > IdleSeconds)

\* the condition under which get_pipeline builds a fresh instance
\* (_last_used is 0 for None: both are falsy)
recycle_due(pipeline, usage_count, last_used, now) ==
    \/ pipeline = NoPipeline
    \/ usage_count >= _max_usage
    \/ (last_used # 0 /\ now - last_used > IdleSeconds)

\* the position of the last '.' of a name, 0 if it has none
LastDot(name) ==
    IF \E i \in DOMAIN name : name[i] = "."
    THEN CHOOSE i \in DOMAIN name : name[i] = "." /\ \A j \in DOMAIN name : name[j] = "." => j <= i
    ELSE 0

ALLOWED_EXTENSIONS == {<<"w","a","v">>, <<"m","p","3">>, <<"m","4","a">>, <<"f","l","a","c">>, <<"o","g","g">>}

\* allowed_file: filename.rsplit('.', 1)[1].lower() in ALLOWED_EXTENSIONS
allowed_file(filename) ==
    /\ LastDot(filename) > 0
    /\ lower(SubSeq(filename, LastDot(filename) + 1, Len(filename))) \in ALLOWED_EXTENSIONS

IsFilenameChar(c) ==
    \/ \E i \in DOMAIN LowerAlphabet : LowerAlphabet[i] = c
    \/ \E i \in DOMAIN UpperAlphabet : UpperAlphabet[i] = c
    \/ IsDigit(c)
    \/ c \in {"_", ".", "-"}

\* werkzeug's secure_filename for a name without whitespace and path
\* separators: the characters outside [A-Za-z0-9_.-] are dropped, then
\* leading and trailing '.' and '_' are stripped
secure_filename(filename) ==
    LET ascii == SelectSeq(filename, IsFilenameChar)
        kept == {i \in DOMAIN ascii : ascii[i] \notin {".", "_"}}
    IN  IF kept = {} THEN <<>>
        ELSE SubSeq(ascii, SetMin(kept), CHOOSE i \in kept : \A j \in kept : j <= i)

\* create_unique_session_id() + '_': the start of every saved file's name
SessionPrefix == <<"s","e","s","s","i","o","n","_","1","_">>

\* unique_filename = f"{unique_session_id}_{filename}"
unique_filename(filename) == SessionPrefix \o secure_filename(filename)

\* pathlib's Path.suffix of a file name
suffix(name) ==
    IF 1 < LastDot(name) /\ LastDot(name) < Len(name)
    THEN SubSeq(name, LastDot(name), Len(name))
    ELSE <<>>

\* config["audio_settings"]["supported_formats"]
supported_formats == {<<".","w","a","v">>, <<".","m","p","3">>, <<".","m","4","a">>, <<".","f","l","a","c">>}

\* validate_audio_file on the file upload_and_process saved (it exists)
validate_audio_file(upload) ==
    /\ lower(suffix(unique_filename(upload.filename))) \in supported_formats
    /\ upload.size_mb <= max_file_size_mb

\* a request without a 'file' part
NoFilePart == [file |-> FALSE, filename |-> <<>>, size_mb |-> 0]

Upload(filename, size_mb) == [file |-> TRUE, filename |-> filename, size_mb |-> size_mb]

F_visit_wav == <<"v","i","s","i","t",".","w","a","v">>  \* 'visit.wav'
F_upper_wav == <<"V","I","S","I","T",".","W","A","V">>  \* 'VISIT.WAV'
F_visit_ogg == <<"v","i","s","i","t",".","o","g","g">>  \* 'visit.ogg'
F_dot_wav == <<".","w","a","v">>  \* '.wav'
F_notes_txt == <<"n","o","t","e","s",".","t","x","t">>  \* 'notes.txt'

\* the requests the upload endpoint is sent
Uploads ==
    { NoFilePart, Upload(<<>>, 0), Upload(F_notes_txt, 1), Upload(F_visit_wav, 1),
      Upload(F_visit_wav, 99), Upload(F_upper_wav, 1), Upload(F_visit_ogg, 1),
      Upload(F_dot_wav, 1) }

\* `not transcript_result or not transcript_result.get('text')` that lets an
\* empty text pass
transcription_failed_never(transcript_result) == FALSE

\* `not transcript_result or not transcript_result.get('text')`
transcription_failed(transcript_result) == transcript_result.text = <<>>

\* what the recordings say: the texts transcribe_audio can return
Recordings == {<<>>, X_blank, T_unresponsive, T_chest_pain, T_fever, T_refill}

Mention(text, phrase, label, confidence, source) ==
    LET at == SetMin({i \in DOMAIN text : StartsWith(text, i, phrase)})
    IN  [text |-> phrase, label |-> label, confidence |-> confidence,
         start |-> at - 1, end |-> at - 1 + Len(phrase), source |-> source]

Mentioned(text) == {p \in {X_chest_pain, X_fever} : Contains(p, text)}

\* what extract_entities_ml can return for a text: [] when the pipeline
\* raises or finds nothing
MLFound(text) ==
    {<<>>} \cup {<<Mention(text, p, "SYMPTOM", 90, "transformer")>> : p \in Mentioned(text)}

\* what extract_entities_rules can return for a text
RulesFound(text) ==
    {<<>>} \cup {<<Mention(text, p, "SYMPTOM", 100, "rule-based")>> : p \in Mentioned(text)}

\* extract_entities, given what the two extractors return
extract_entities(text, ml, rules) ==
    IF text = <<>> \/ strip(text) = <<>>
    THEN [c \in Categories |-> <<>>]
    ELSE merge_entities(ml, rules)

\* the record of the except branch of process_single_audio
error_record(message) == [status |-> "error", error |-> message]

\* compile_results
compile_results(transcript_text, ents, triage) ==
    [status |-> "completed",
     transcription |-> [text |-> transcript_text],
     entities |-> [extracted_entities |-> ents],
     triage |-> triage]

\* upload_and_process, "Format response": result.get(key, {}).get(...)
response_data(result) ==
    [status_code |-> 200,
     success |-> TRUE,
     transcript |-> [text |-> IF "transcription" \in DOMAIN result
                              THEN result.transcription.text ELSE <<>>],
     triage |-> [level |-> IF "triage" \in DOMAIN result
                           THEN result.triage.triage_level ELSE 5,
                 priority |-> IF "triage" \in DOMAIN result
                              THEN result.triage.priority ELSE "NON-URGENT",
                 color_code |-> IF "triage" \in DOMAIN result
                                THEN result.triage.color_code ELSE "BLUE"]]

\* the server threads (app.run(threaded=True)): two handle uploads, one
\* handles a cleanup request
Uploaders == {"u1", "u2"}

Cleaners == {"c1"}

Threads == Uploaders \cup Cleaners

NoRecord == [status |-> "none"]

NoResponse == [status_code |-> 0]

NothingSeen == [pipeline |-> NoPipeline, handed_out |-> 0, last_used |-> 0, now |-> 0]

\* a thread that handles no request
IdleRequest ==
    [pc |-> "idle", upload |-> NoFilePart, pipeline |-> NoPipeline,
     seen |-> NothingSeen, fresh |-> FALSE,
     stages |-> <<>>, failed |-> "none", transcript_text |-> <<>>,
     entities |-> [c \in Categories |-> <<>>], triage |-> NoVerdict,
     result |-> NoRecord, response |-> NoResponse]

ServiceIdle ==
    /\ _pipeline = NoPipeline
    /\ _last_used = 0
    /\ _usage_count = 0
    /\ _lock = "free"
    /\ current_time = 0
    /\ clock = 1
    /\ created = 0
    /\ handed_out = 0
    /\ intact = {}
    /\ outcomes = {}
    /\ req = [t \in Threads |-> IdleRequest]

MaxClock == 3603

MaxInstances == 3

MaxRequests == 2

\* the steps by which time.time() grows between two statements
Ticks == {1800, 1801}

Tick(ds) ==
    /\ \E d \in ds :
         /\ clock + d <= MaxClock
         /\ clock' = clock + d
    /\ UNCHANGED <<manager_vars, req, core_vars>>

\* a 4xx or 5xx answer or the answer of force_cleanup
Answer(code, ok) == [status_code |-> code, success |-> ok]

\* upload_and_process up to file.save(file_path)
StartUpload(t, US) ==
    /\ req[t].pc = "idle"
    /\ \E u \in US :
         req' = [req EXCEPT ![t] =
                   IF ~ u.file \/ u.filename = <<>> \/ ~ allowed_file(u.filename)
                   THEN [@ EXCEPT !.pc = "responded", !.upload = u,
                                  !.response = Answer(400, FALSE)]
                   ELSE [@ EXCEPT !.pc = "get_pipeline", !.upload = u]]
    /\ UNCHANGED <<manager_vars, clock, core_vars>>

\* get_pipeline: `with self._lock:` and `current_time = time.time()`
GetPipelineEnter(t) ==
    /\ req[t].pc = "get_pipeline"
    /\ _lock = "free"
    /\ _lock' = t
    /\ current_time' = clock
    /\ req' = [req EXCEPT ![t].pc = "test"]
    /\ UNCHANGED <<_pipeline, _last_used, _usage_count, created, handed_out, intact,
                   outcomes, clock, core_vars>>

\* an exception leaves get_pipeline (the `with` releases the lock) and is
\* caught by the except branch of upload_and_process
GetPipelineRaises(t, error) ==
    /\ _lock' = "free"
    /\ current_time' = 0
    /\ outcomes' = outcomes \cup {error}
    /\ req' = [req EXCEPT ![t].pc = "except"]

\* get_pipeline: the `if` that decides whether to build a fresh instance
GetPipelineTest(t) ==
    /\ req[t].pc = "test"
    /\ IF _pipeline = Deleted
       THEN GetPipelineRaises(t, "AttributeError")
       ELSE /\ req' = [req EXCEPT ![t] =
                         [@ EXCEPT !.pc = IF recycle_due(_pipeline, _usage_count,
                                                         _last_used, current_time)
                                          THEN "recycle" ELSE "hand_out",
                                   !.fresh = FALSE,
                                   !.seen = [pipeline |-> _pipeline,
                                             handed_out |-> handed_out,
                                             last_used |-> _last_used,
                                             now |-> current_time]]]
            /\ UNCHANGED <<_lock, current_time, outcomes>>
    /\ UNCHANGED <<_pipeline, _last_used, _usage_count, created, handed_out, intact,
                   clock, core_vars>>

\* get_pipeline: `if self._pipeline is not None: self._cleanup_pipeline()`
GetPipelineRecycle(t) ==
    /\ req[t].pc = "recycle"
    /\ IF _pipeline = Deleted
       THEN GetPipelineRaises(t, "AttributeError")
       ELSE /\ req' = [req EXCEPT ![t].pc =
                         IF _pipeline # NoPipeline THEN "cleanup_models" ELSE "create"]
            /\ UNCHANGED <<_lock, current_time, outcomes>>
    /\ UNCHANGED <<_pipeline, _last_used, _usage_count, created, handed_out, intact,
                   clock, core_vars>>

\* an AttributeError leaves _cleanup_pipeline: through get_pipeline when the
\* thread holds the lock, to the except branch of force_cleanup otherwise
CleanupRaises(t) ==
    IF _lock = t
    THEN GetPipelineRaises(t, "AttributeError")
    ELSE /\ req' = [req EXCEPT ![t].pc = "except"]
         /\ UNCHANGED <<_lock, current_time, outcomes>>

\* _cleanup_pipeline: the `del` of the transcriber and NER models
CleanupModels(t) ==
    /\ req[t].pc = "cleanup_models"
    /\ IF _pipeline = Deleted
       THEN CleanupRaises(t) /\ UNCHANGED intact
       ELSE /\ intact' = intact \ {_pipeline}
            /\ req' = [req EXCEPT ![t].pc = "cleanup_del"]
            /\ UNCHANGED <<_lock, current_time, outcomes>>
    /\ UNCHANGED <<_pipeline, _last_used, _usage_count, created, handed_out,
                   clock, core_vars>>

\* _cleanup_pipeline: `del self._pipeline`
CleanupDelete(t) ==
    /\ req[t].pc = "cleanup_del"
    /\ IF _pipeline = Deleted
       THEN CleanupRaises(t) /\ UNCHANGED _pipeline
       ELSE /\ _pipeline' = Deleted
            /\ req' = [req EXCEPT ![t].pc = "cleanup_none"]
            /\ UNCHANGED <<_lock, current_time, outcomes>>
    /\ UNCHANGED <<_last_used, _usage_count, created, handed_out, intact,
                   clock, core_vars>>

\* _cleanup_pipeline: gc.collect() up to `self._pipeline = None`
CleanupNone(t) ==
    /\ req[t].pc = "cleanup_none"
    /\ _pipeline' = NoPipeline
    /\ req' = [req EXCEPT ![t].pc = IF _lock = t THEN "create" ELSE "cleaned"]
    /\ UNCHANGED <<_last_used, _usage_count, _lock, current_time, created, handed_out,
                   intact, outcomes, clock, core_vars>>

\* get_pipeline: `self._pipeline = MedicalPipelineIntegrator()` and
\* `self._usage_count = 0`; the constructor re-raises what the loading of a
\* model raises
GetPipelineCreate(t) ==
    /\ req[t].pc = "create"
    /\ \/ /\ created < MaxInstances
          /\ created' = created + 1
          /\ _pipeline' = created + 1
          /\ intact' = intact \cup {created + 1}
          /\ _usage_count' = 0
          /\ handed_out' = 0
          /\ req' = [req EXCEPT ![t] = [@ EXCEPT !.pc = "hand_out", !.fresh = TRUE]]
          /\ UNCHANGED <<_lock, current_time, outcomes>>
       \/ /\ GetPipelineRaises(t, "constructor raised")
          /\ UNCHANGED <<_pipeline, _usage_count, created, handed_out, intact>>
    /\ UNCHANGED <<_last_used, clock, core_vars>>

\* get_pipeline: `self._last_used = current_time` up to the return
GetPipelineReturn(t) ==
    /\ req[t].pc = "hand_out"
    /\ _last_used' = current_time
    /\ _usage_count' = _usage_count + 1
    /\ IF _pipeline = Deleted
       THEN GetPipelineRaises(t, "AttributeError") /\ UNCHANGED handed_out
       ELSE /\ handed_out' = IF _pipeline = created /\ created > 0
                             THEN handed_out + 1 ELSE handed_out
            /\ _lock' = "free"
            /\ current_time' = 0
            /\ outcomes' = outcomes \cup {"returned"}
            /\ req' = [req EXCEPT ![t] =
                         [@ EXCEPT !.pc = "process", !.pipeline = _pipeline]]
    /\ UNCHANGED <<_pipeline, created, intact, clock, core_vars>>

\* the record process_single_audio returns from its except branch
Fails(t, stage, message) ==
    req' = [req EXCEPT ![t] =
              [@ EXCEPT !.pc = "respond", !.stages = Append(@, stage), !.failed = stage,
                        !.result = error_record(message)]]

Passes(t, stage, next, field, value) ==
    req' = [req EXCEPT ![t] =
              [@ EXCEPT !.pc = next, !.stages = Append(@, stage), ![field] = value]]

\* upload_and_process calls pipeline.process_single_audio; the call runs up
\* to the `try`
ProcessSingleAudio(t) ==
    /\ req[t].pc = "process"
    /\ req' = [req EXCEPT ![t].pc =
                 IF req[t].pipeline = NoPipeline THEN "except" ELSE "validate"]
    /\ UNCHANGED <<manager_vars, clock, core_vars>>

\* process_single_audio, step 1
Validate(t) ==
    /\ req[t].pc = "validate"
    /\ IF validate_audio_file(req[t].upload)
       THEN Passes(t, "validate", "transcribe", "failed", "none")
       ELSE Fails(t, "validate", "Audio validation failed")
    /\ UNCHANGED <<manager_vars, clock, core_vars>>

\* process_single_audio, step 2: transcribe_audio raises when the model is
\* deleted or Whisper raises, else it returns what the recording says
Transcribe(t, texts) ==
    /\ req[t].pc = "transcribe"
    /\ \/ Fails(t, "transcribe", "Transcription failed")
       \/ /\ req[t].pipeline \in intact
          /\ \E text \in texts :
               IF transcription_failed([text |-> text])
               THEN Fails(t, "transcribe", "Transcription failed or returned empty text")
               ELSE Passes(t, "transcribe", "extract", "transcript_text", text)
    /\ UNCHANGED <<manager_vars, clock, core_vars>>

\* process_single_audio, step 3: the two extractors return [] when their
\* model is deleted
Extract(t) ==
    /\ req[t].pc = "extract"
    /\ \E text \in {req[t].transcript_text} :
       \E ml \in (IF req[t].pipeline \in intact THEN MLFound(text) ELSE {<<>>}),
          rules \in (IF req[t].pipeline \in intact THEN RulesFound(text) ELSE {<<>>}) :
            Passes(t, "extract", "triage", "entities", extract_entities(text, ml, rules))
    /\ UNCHANGED <<manager_vars, clock, core_vars>>

\* process_single_audio, step 4: comprehensive_triage -> assess_esi_level
Triage(t, ids, nows) ==
    /\ req[t].pc = "triage"
    /\ \E level \in {esi_level(req[t].entities, req[t].transcript_text)} :
         IF level = 0
         THEN Fails(t, "triage", "KeyError")
         ELSE \E id \in ids, now \in nows :
                Passes(t, "triage", "compile", "triage", branch_response(level, id, now))
    /\ UNCHANGED <<manager_vars, clock, core_vars>>

\* process_single_audio, steps 5 to 7
Compile(t) ==
    /\ req[t].pc = "compile"
    /\ req' = [req EXCEPT ![t] =
                 [@ EXCEPT !.pc = "respond",
                           !.result = compile_results(req[t].transcript_text,
                                                      req[t].entities, req[t].triage)]]
    /\ UNCHANGED <<manager_vars, clock, core_vars>>

\* upload_and_process from `if 'session_info' in result` to the return
Respond(t) ==
    /\ req[t].pc = "respond"
    /\ req' = [req EXCEPT ![t] =
                 [@ EXCEPT !.pc = "responded",
                           !.response = response_data(req[t].result)]]
    /\ UNCHANGED <<manager_vars, clock, core_vars>>

\* the except branch of upload_and_process and of force_cleanup
Except(t) ==
    /\ req[t].pc = "except"
    /\ req' = [req EXCEPT ![t] =
                 [@ EXCEPT !.pc = "responded",
                           !.response = Answer(500, FALSE)]]
    /\ UNCHANGED <<manager_vars, clock, core_vars>>

\* force_cleanup calls pipeline_manager._cleanup_pipeline(), without the lock
ForceCleanup(t) ==
    /\ req[t].pc = "idle"
    /\ req' = [req EXCEPT ![t].pc = "cleanup_models"]
    /\ UNCHANGED <<manager_vars, clock, core_vars>>

\* force_cleanup after _cleanup_pipeline has returned
CleanupDone(t) ==
    /\ req[t].pc = "cleaned"
    /\ req' = [req EXCEPT ![t] =
                 [@ EXCEPT !.pc = "responded", !.response = Answer(200, TRUE)]]
    /\ UNCHANGED <<manager_vars, clock, core_vars>>

\* the thread takes the next request
NextRequest(t) ==
    /\ req[t].pc = "responded"
    /\ req' = [req EXCEPT ![t] = IdleRequest]
    /\ UNCHANGED <<manager_vars, clock, core_vars>>

(***************************************************************************)
(* Specifications                                                          *)
(***************************************************************************)
TriageObjects == {"hybrid.esi_system", "medical", "medical.esi_system"}

TriageIdle ==
    /\ pc = "idle"
    /\ entities = E_empty
    /\ transcript = T_empty
    /\ evaluated = <<>>
    /\ verdict = NoVerdict
    /\ cache = [o \in TriageObjects |-> EmptyDict]
    /\ first = NoCall

MergeIdle ==
    /\ mpc = "ready"
    /\ ml_entities = <<>>
    /\ rule_entities = <<>>
    /\ merged = [c \in Categories |-> <<>>]
    /\ first_merge = NoCall

OverlapEntities ==
    { [text |-> SubSeq(SourceText, s[1] + 1, s[2]), label |-> "SYMPTOM", confidence |-> 100,
       start |-> s[1], end |-> s[2], source |-> "rule-based"] : s \in Spans(MaxOffset) }

OverlapIdle ==
    /\ ov_a = CHOOSE e \in OverlapEntities : e.start = 0 /\ e.end = 1
    /\ ov_b = ov_a
    /\ ov_called = FALSE
    /\ ov_ab = FALSE
    /\ ov_ba = FALSE

ExtractIdle ==
    /\ ex_text = <<>>
    /\ ex_pc = "idle"
    /\ ex_ml_called = FALSE
    /\ ex_rules_called = FALSE
    /\ ex_result = [c \in Categories |-> <<>>]

\* HybridTriageSystem.comprehensive_triage -> assess_esi_level
ComprehensiveTriage ==
    /\ Enter(Transcripts, EntityInputs, {"hybrid.esi_system"})
    /\ UNCHANGED <<first, mpc, merge_vars, first_merge, overlap_vars, extract_vars, service_vars>>

\* MedicalTriageSystem.assess_triage_level -> clear_cache, assess_esi_level
AssessTriageLevel ==
    /\ Enter(Transcripts, EntityInputs, {"medical", "medical.esi_system"})
    /\ UNCHANGED <<first, mpc, merge_vars, first_merge, overlap_vars, extract_vars, service_vars>>

Level1 == Branch(1) /\ UNCHANGED <<first, mpc, merge_vars, first_merge, overlap_vars, extract_vars, service_vars>>

Level2 == Branch(2) /\ UNCHANGED <<first, mpc, merge_vars, first_merge, overlap_vars, extract_vars, service_vars>>

Level3 == Branch(3) /\ UNCHANGED <<first, mpc, merge_vars, first_merge, overlap_vars, extract_vars, service_vars>>

Level4 == Branch(4) /\ UNCHANGED <<first, mpc, merge_vars, first_merge, overlap_vars, extract_vars, service_vars>>

Init == TriageIdle /\ MergeIdle /\ OverlapIdle /\ ExtractIdle /\ ServiceIdle

Next ==
    \/ ComprehensiveTriage
    \/ AssessTriageLevel
    \/ Level1
    \/ Level2
    \/ Level3
    \/ Level4

\* the classifier, called again and again with any input
Spec == Init /\ [][Next]_vars

\* comprehensive_triage called with a transcript of readings
TriageReadings ==
    /\ Enter(ReadingTranscripts, ReadingEntities, {"hybrid.esi_system"})
    /\ UNCHANGED <<first, mpc, merge_vars, first_merge, overlap_vars, extract_vars, service_vars>>

NextReadings ==
    \/ TriageReadings
    \/ Level1
    \/ Level2
    \/ Level3
    \/ Level4

\* the classifier, called again and again with transcripts of readings
SpecReadings == Init /\ [][NextReadings]_vars

NextMerge ==
    /\ mpc = "ready"
    /\ MergeEntities(ModelLists, RuleLists)
    /\ UNCHANGED <<triage_vars, first, first_merge, overlap_vars, extract_vars, service_vars>>

\* one call of merge_entities on any two lists
SpecMerge == Init /\ [][NextMerge]_vars

(***************************************************************************)
(* A session: classification calls and merge calls in any number and any   *)
(* order on the same objects.  `first` and `first_merge` remember one      *)
(* finished call each, to compare later calls with.                        *)
(***************************************************************************)
SessionTranscripts == {T_empty, T_chest_pain, T_bp_low}

SessionEntities == {E_empty, E_diabetes, E_symptom_no_text}

S_high == [text |-> <<"c","o">>, label |-> "SYMPTOM", confidence |-> 90,
           start |-> 0, end |-> 2, source |-> "transformer"]

S_low == [text |-> <<"o","u">>, label |-> "SYMPTOM", confidence |-> HighConfidence,
          start |-> 1, end |-> 3, source |-> "transformer"]

S_rule == [text |-> <<"u","g">>, label |-> "DISEASE", confidence |-> 100,
           start |-> 2, end |-> 4, source |-> "rule-based"]

SessionModelLists == {<<>>, <<S_low>>, <<S_high, S_low>>}

SessionRuleLists == {<<>>, <<S_rule>>}

\* a verdict without its assessment_id and timestamp
Strip(v) == [f \in DOMAIN v \ {"assessment_id", "timestamp"} |-> v[f]]

SessionComprehensiveTriage ==
    /\ Enter(SessionTranscripts, SessionEntities, {"hybrid.esi_system"})
    /\ UNCHANGED <<first, mpc, merge_vars, first_merge, overlap_vars, extract_vars, service_vars>>

SessionAssessTriageLevel ==
    /\ Enter(SessionTranscripts, SessionEntities, {"medical", "medical.esi_system"})
    /\ UNCHANGED <<first, mpc, merge_vars, first_merge, overlap_vars, extract_vars, service_vars>>

SessionMerge ==
    /\ MergeEntities(SessionModelLists, SessionRuleLists)
    /\ UNCHANGED <<triage_vars, first, first_merge, overlap_vars, extract_vars, service_vars>>

\* remember the classification call that has just ended
RememberTriage ==
    /\ pc \in {"done", "raised"}
    /\ first = NoCall
    /\ first' = [outcome |-> pc, entities |-> entities, transcript |-> transcript,
                 result |-> Strip(verdict),
                 id |-> IF pc = "done" THEN verdict.assessment_id ELSE "none"]
    /\ UNCHANGED <<triage_vars, mpc, merge_vars, first_merge, overlap_vars, extract_vars, service_vars>>

\* remember the merge call that has just ended
RememberMerge ==
    /\ mpc = "returned"
    /\ first_merge = NoCall
    /\ first_merge' = [outcome |-> "returned", ml |-> ml_entities,
                       rules |-> rule_entities, merged |-> merged]
    /\ UNCHANGED <<triage_vars, first, mpc, merge_vars, overlap_vars, extract_vars, service_vars>>

NextSession ==
    \/ SessionComprehensiveTriage
    \/ SessionAssessTriageLevel
    \/ Level1
    \/ Level2
    \/ Level3
    \/ Level4
    \/ SessionMerge
    \/ RememberTriage
    \/ RememberMerge

SpecSession == Init /\ [][NextSession]_vars

NextExtract ==
    ExtractEntities
        /\ UNCHANGED <<triage_vars, first, mpc, merge_vars, first_merge, overlap_vars, service_vars>>

\* extract_entities, called again and again with any text
SpecExtract == Init /\ [][NextExtract]_vars

InitOverlap ==
    /\ TriageIdle
    /\ MergeIdle
    /\ ExtractIdle
    /\ ServiceIdle
    /\ ov_a \in OverlapEntities
    /\ ov_b \in OverlapEntities
    /\ ov_called = FALSE
    /\ ov_ab = FALSE
    /\ ov_ba = FALSE

NextOverlap ==
    EntitiesOverlap /\ UNCHANGED <<triage_vars, first, mpc, merge_vars, first_merge, extract_vars, service_vars>>

\* entities_overlap on any two entities
SpecOverlap == InitOverlap /\ [][NextOverlap]_vars

(***************************************************************************)
(* The service, in three settings                                          *)
(***************************************************************************)
\* one upload after the other on one thread, with one recording
OneUpload == {Upload(F_visit_wav, 1)}

OneRecording == {T_refill}

\* the steps of get_pipeline and of _cleanup_pipeline
ManagerStep(t) ==
    \/ GetPipelineEnter(t)
    \/ GetPipelineTest(t)
    \/ GetPipelineRecycle(t)
    \/ CleanupModels(t)
    \/ CleanupDelete(t)
    \/ CleanupNone(t)
    \/ GetPipelineCreate(t)
    \/ GetPipelineReturn(t)

\* the steps of an upload request once it has its pipeline
ProcessStep(t, texts, ids, nows) ==
    \/ ProcessSingleAudio(t)
    \/ Validate(t)
    \/ Transcribe(t, texts)
    \/ Extract(t)
    \/ Triage(t, ids, nows)
    \/ Compile(t)
    \/ Respond(t)
    \/ Except(t)

NextManager ==
    \/ \E t \in {"u1"} :
         \/ StartUpload(t, OneUpload)
         \/ ManagerStep(t)
         \/ ProcessStep(t, OneRecording, {"3f9a1c07"}, {"2024-05-01T10:00:00"})
         \/ NextRequest(t)
    \/ Tick(Ticks)

\* upload requests one after the other, time passing between the steps
SpecManager == Init /\ [][NextManager]_vars

NextServer ==
    \/ \E t \in Uploaders :
         \/ StartUpload(t, OneUpload)
         \/ ManagerStep(t)
         \/ ProcessStep(t, OneRecording, {"3f9a1c07"}, {"2024-05-01T10:00:00"})
    \/ \E t \in Cleaners :
         \/ ForceCleanup(t)
         \/ CleanupModels(t)
         \/ CleanupDelete(t)
         \/ CleanupNone(t)
         \/ CleanupDone(t)
         \/ Except(t)
    \/ Tick({IdleSeconds + 1})

\* two upload requests and a cleanup request, each on its own thread
SpecServer == Init /\ [][NextServer]_vars

NextUpload ==
    \E t \in {"u1"} :
        \/ StartUpload(t, Uploads)
        \/ GetPipelineEnter(t)
        \/ GetPipelineTest(t)
        \/ GetPipelineRecycle(t)
        \/ GetPipelineCreate(t)
        \/ GetPipelineReturn(t)
        \/ ProcessStep(t, Recordings, AssessmentIds, Timestamps)
        \/ (_usage_count < MaxRequests /\ NextRequest(t))

\* a few upload requests one after the other, with any file and recording
SpecUpload == Init /\ [][NextUpload]_vars

(***************************************************************************)
(* Claims about the classifier (specification Spec)                        *)
(***************************************************************************)
\* the predicate of `level` holds of the call in progress
Holds(level) == level_predicate(level, entities, transcript) = "True"

IsPrefix(s, t) == Len(s) <= Len(t) /\ SubSeq(t, 1, Len(s)) = s

\* C1: assess_esi_level evaluates the level predicates in the order 1, 2, 3, 4
\* and stops at the first that holds: a returned verdict has the lowest level
\* whose predicate holds, no predicate after that one has been evaluated, the
\* level is 5 exactly when none of the four holds, and an input that satisfies
\* the Level-1 predicate gets level 1 whatever else it satisfies.
C1_LadderOrder ==
    /\ IsPrefix(evaluated, <<1, 2, 3, 4>>)
    /\ pc = "done" =>
         LET level == verdict.triage_level
         IN  /\ level \in 1..5
             /\ \A k \in 1..4 : k < level => ~ Holds(k)
             /\ level <= 4 => Holds(level)
             /\ (level = 5) <=> (\A k \in 1..4 : ~ Holds(k))
             /\ evaluated = [i \in 1..(IF level = 5 THEN 4 ELSE level) |-> i]
             /\ Holds(1) => level = 1

\* C1 witness: a call whose input satisfies all four predicates has returned
\* level 1 after evaluating the Level-1 predicate only
C1_Witness ==
    /\ pc = "done"
    /\ \A k \in 1..4 : Holds(k)
    /\ verdict.triage_level = 1
    /\ evaluated = <<1>>

\* the table of section 4.4 (U+2264 written <=, as in branch_response)
LevelTable ==
    <<[priority |-> "IMMEDIATE", color_code |-> "RED", wait_time |-> "0 minutes"],
      [priority |-> "EMERGENT", color_code |-> "ORANGE", wait_time |-> "<=10 minutes"],
      [priority |-> "URGENT", color_code |-> "YELLOW", wait_time |-> "<=30 minutes"],
      [priority |-> "LESS URGENT", color_code |-> "GREEN", wait_time |-> "<=60 minutes"],
      [priority |-> "NON-URGENT", color_code |-> "BLUE", wait_time |-> "<=120 minutes"]>>

\* C2: every verdict has a level in 1..5 and the label, color and wait bound
\* the table fixes for that level.
C2_FixedMapping ==
    verdict # NoVerdict =>
        /\ verdict.triage_level \in 1..5
        /\ verdict.priority = LevelTable[verdict.triage_level].priority
        /\ verdict.color_code = LevelTable[verdict.triage_level].color_code
        /\ verdict.wait_time = LevelTable[verdict.triage_level].wait_time

\* C2 witness: a level-4 verdict has been returned, by the last branch that
\* tests a predicate
C2_Witness ==
    /\ pc = "done"
    /\ evaluated = <<1, 2, 3, 4>>
    /\ verdict.triage_level = 4
    /\ verdict.color_code = "GREEN"

\* C3: the confidence of a verdict is fixed by its level: HIGH for 1 and 2,
\* MEDIUM for 3, LOW for 4 and 5.
C3_ConfidenceByLevel ==
    verdict # NoVerdict =>
        verdict.confidence =
            CASE verdict.triage_level \in {1, 2} -> "HIGH"
              [] verdict.triage_level = 3 -> "MEDIUM"
              [] verdict.triage_level \in {4, 5} -> "LOW"

\* C3 witness: a level-2 verdict with confidence HIGH has been returned
C3_Witness ==
    /\ pc = "done"
    /\ verdict.triage_level = 2
    /\ verdict.confidence = "HIGH"

\* the call of example scenario 3 has returned
Scenario3 ==
    /\ pc = "done"
    /\ entities = E_pneumonia
    /\ transcript = T_pneumonia

\* C5 as stated: scenario 3 (one DISEASE entity 'pneumonia', transcript
\* 'follow-up for pneumonia') returns level 3, YELLOW.
C5_Scenario3Urgent ==
    Scenario3 => verdict.triage_level = 3 /\ verdict.color_code = "YELLOW"

\* C5 amended: scenario 3 returns level 5, BLUE ('pneumonia' is in no phrase
\* list and the transcript matches no phrase).
C5_Scenario3NonUrgent ==
    Scenario3 => verdict.triage_level = 5 /\ verdict.color_code = "BLUE"

\* C5 witness: the scenario-3 call has returned, after all four predicates
C5_Witness == Scenario3 /\ evaluated = <<1, 2, 3, 4>>

\* C7 as stated: assess_esi_level never ends by raising, whatever the input,
\* and an input with no signal returns level 5.
C7_NeverRaises ==
    /\ pc # "raised"
    /\ (pc = "done" /\ entities = E_no_categories /\ transcript = T_empty)
          => verdict.triage_level = 5

(***************************************************************************)
(* Claims about merge_entities (specification SpecMerge)                   *)
(***************************************************************************)
\* no bucket of the merged collection holds two entities, at different
\* places, that overlap
NoOverlapInBucket ==
    \A c \in DOMAIN merged :
        \A i \in DOMAIN merged[c], j \in DOMAIN merged[c] :
            i # j => ~ entities_overlap(merged[c][i], merged[c][j])

\* no two high-confidence model entities of one category overlap each other
HighConfidenceDisjoint ==
    \A i \in DOMAIN ml_entities, j \in DOMAIN ml_entities :
        ( /\ i # j
          /\ ml_entities[i].confidence > HighConfidence
          /\ ml_entities[j].confidence > HighConfidence
          /\ ml_entities[i].label = ml_entities[j].label )
        => ~ entities_overlap(ml_entities[i], ml_entities[j])

\* C6 as stated: for all inputs, also model lists in which two high-confidence
\* entities of one category overlap, no bucket of the merged collection holds
\* two overlapping entities.
C6_NoOverlapAnyInput == mpc = "returned" => NoOverlapInBucket

\* C6 amended: when no two high-confidence model entities of one category
\* overlap each other, no bucket of the merged collection holds two
\* overlapping entities.
C6_NoOverlapDisjointModel ==
    (mpc = "returned" /\ HighConfidenceDisjoint) => NoOverlapInBucket

\* C6 witness: a merge of such an input that admitted two entities to a
\* bucket and kept a rule entity and a low-confidence entity, each
\* overlapping an admitted one, out of it
C6_Witness ==
    /\ mpc = "returned"
    /\ HighConfidenceDisjoint
    /\ \E c \in Categories :
         /\ Len(merged[c]) >= 2
         /\ \E r \in DOMAIN rule_entities :
               /\ rule_entities[r].label = c
               /\ overlaps_bucket(rule_entities[r], merged[c])
               /\ \A i \in DOMAIN merged[c] : merged[c][i] # rule_entities[r]
         /\ \E m \in DOMAIN ml_entities :
               /\ ml_entities[m].label = c
               /\ ml_entities[m].confidence <= HighConfidence
               /\ overlaps_bucket(ml_entities[m], merged[c])
               /\ \A i \in DOMAIN merged[c] : merged[c][i] # ml_entities[m]

\* C8: the merged collection has exactly the five keys, each mapped to a
\* sequence; every entity of the bucket of category X has label X, so none
\* has the label OTHER or any label outside the five.
C8_CategoryClosure ==
    mpc = "returned" =>
        /\ DOMAIN merged = Categories
        /\ \A c \in DOMAIN merged :
              /\ DOMAIN merged[c] = 1..Len(merged[c])
              /\ \A i \in DOMAIN merged[c] :
                    /\ merged[c][i].label = c
                    /\ merged[c][i].label \in Categories

\* C8 witness: a merge whose model list held a high-confidence OTHER entity
\* and which admitted another entity
C8_Witness ==
    /\ mpc = "returned"
    /\ \E m \in DOMAIN ml_entities :
          ml_entities[m].label = "OTHER" /\ ml_entities[m].confidence > HighConfidence
    /\ \E c \in Categories : merged[c] # <<>>

(***************************************************************************)
(* Claims about entities_overlap (specification SpecOverlap)               *)
(***************************************************************************)
\* the offsets of the half-open range [start, end) of an entity
Range(entity) == {x \in 0..MaxOffset : entity.start <= x /\ x < entity.end}

\* C9: entities_overlap(a, b) is true exactly when the half-open ranges
\* [a.start, a.end) and [b.start, b.end) intersect, that is when neither
\* a.end <= b.start nor b.end <= a.start; spans that touch do not overlap.
C9_HalfOpenOverlap ==
    ov_called =>
        /\ ov_ab <=> (Range(ov_a) \cap Range(ov_b) # {})
        /\ ov_ab <=> ~ (ov_a.end <= ov_b.start \/ ov_b.end <= ov_a.start)
        /\ ov_a.end = ov_b.start => ~ ov_ab

\* C9 witness: entities_overlap has answered false for two spans that touch
C9_Witness ==
    /\ ov_called
    /\ ov_a.end = ov_b.start
    /\ ~ ov_ab

\* C10: entities_overlap(a, b) = entities_overlap(b, a).
C10_OverlapSymmetric == ov_called => (ov_ab <=> ov_ba)

\* C10 witness: two different spans, neither inside the other, that overlap
\* in both orders
C10_Witness ==
    /\ ov_called
    /\ ov_a.start < ov_b.start
    /\ ov_a.end < ov_b.end
    /\ ov_ab
    /\ ov_ba

(***************************************************************************)
(* Claims about sequences of calls (specification SpecSession)             *)
(***************************************************************************)
\* C4: in any sequence of classification and merge calls on the same
\* objects, a call's output, without assessment_id and timestamp, depends on
\* its own arguments only: a call with the arguments of a remembered earlier
\* call ends as that call did, with the same level, label, color,
\* recommendation, wait bound and confidence (the same merged collection),
\* whatever calls came between; and every _cache is empty at all times.
C4_CallsIndependent ==
    /\ \A o \in DOMAIN cache : cache[o] = EmptyDict
    /\ ( /\ pc \in {"done", "raised"}
         /\ first # NoCall
         /\ first.entities = entities
         /\ first.transcript = transcript )
       => (first.outcome = pc /\ first.result = Strip(verdict))
    /\ ( /\ mpc = "returned"
         /\ first_merge # NoCall
         /\ first_merge.ml = ml_entities
         /\ first_merge.rules = rule_entities )
       => first_merge.merged = merged

\* C4 witness: a later classification call (another assessment_id) has
\* returned for the arguments of the remembered one, and the last merge call
\* had the arguments of the remembered merge call but is not that call: the
\* remembered one was made before any classification, this one after
C4_Witness ==
    /\ pc = "done"
    /\ first # NoCall
    /\ first.entities = entities
    /\ first.transcript = transcript
    /\ first.id # verdict.assessment_id
    /\ verdict.triage_level = 3
    /\ mpc = "returned"
    /\ first_merge # NoCall
    /\ first_merge.ml = ml_entities
    /\ first_merge.rules = rule_entities
    /\ Len(merged["SYMPTOM"]) = 1
    /\ Len(ml_entities) = 2

\* the call on an empty transcript and a collection of five empty categories
EmptyInput == transcript = T_empty /\ entities = E_empty

\* C11: classifying an empty transcript with an entity collection whose
\* categories are all empty does not raise and returns level 5, color BLUE,
\* confidence LOW.
C11_EmptyInputNonUrgent ==
    EmptyInput =>
        /\ pc # "raised"
        /\ pc = "done" =>
              /\ verdict.triage_level = 5
              /\ verdict.color_code = "BLUE"
              /\ verdict.confidence = "LOW"

\* C11 witness: that call has returned, after all four predicates
C11_Witness == EmptyInput /\ pc = "done" /\ evaluated = <<1, 2, 3, 4>>

(***************************************************************************)
(* Claims about extract_entities (specification SpecExtract)               *)
(***************************************************************************)
\* the text of the last call is empty or holds whitespace only
BlankText == \A i \in DOMAIN ex_text : IsSpace(ex_text[i])

\* C12: extract_entities called with an empty or whitespace-only text returns
\* a collection with the five categories, all empty, and runs neither
\* extract_entities_ml nor extract_entities_rules; the call returns (it has no
\* raising path).
C12_BlankTextEmptyCollection ==
    (ex_pc = "returned" /\ BlankText) =>
        /\ DOMAIN ex_result = Categories
        /\ \A c \in Categories : ex_result[c] = <<>>
        /\ ~ ex_ml_called
        /\ ~ ex_rules_called

\* C12 witness: a call with a text of several kinds of whitespace has
\* returned
C12_Witness ==
    /\ ex_pc = "returned"
    /\ BlankText
    /\ \E i \in DOMAIN ex_text : ex_text[i] # " "
    /\ ~ ex_ml_called

\* an entity collection with every entity text replaced by convert(text)
ConvertTexts(convert(_), ents) ==
    [c \in DOMAIN ents |->
        [i \in DOMAIN ents[c] |->
            IF "text" \in DOMAIN ents[c][i]
            THEN [ents[c][i] EXCEPT !.text = convert(@)]
            ELSE ents[c][i]]]

\* upper-casing or lower-casing the transcript and the entity texts of the
\* call gives the level the call returned
SameLevelInOtherCase ==
    /\ verdict.triage_level = esi_level(ConvertTexts(upper, entities), upper(transcript))
    /\ verdict.triage_level = esi_level(ConvertTexts(lower, entities), lower(transcript))

\* every letter of the transcript and of the entity texts is an ASCII letter
AsciiLetters ==
    /\ \A i \in DOMAIN transcript : transcript[i] # LongS
    /\ \A c \in DOMAIN entities : \A i \in DOMAIN entities[c] :
          "text" \in DOMAIN entities[c][i] =>
              \A j \in DOMAIN entities[c][i].text : entities[c][i].text[j] # LongS

\* C13 as stated: for every transcript and entity collection, changing the
\* letter case of the transcript and of the entity texts does not change the
\* returned level.
C13_CaseInsensitive ==
    pc = "done" => SameLevelInOtherCase

\* C13 amended: when the letters of the transcript and of the entity texts
\* are ASCII letters, changing their case does not change the returned level.
C13_CaseInsensitiveAscii ==
    (pc = "done" /\ AsciiLetters) => SameLevelInOtherCase

\* C13 witness: a call whose transcript and entity text both hold capital
\* letters has returned level 1 for a phrase found in the entity text
C13_Witness ==
    /\ pc = "done"
    /\ transcript = T_sepsis_sprain
    /\ entities = E_pulseless
    /\ upper(transcript) # transcript
    /\ lower(transcript) # transcript
    /\ verdict.triage_level = 1

(***************************************************************************)
(* Claims about vital-sign readings and ages (specification SpecReadings)  *)
(***************************************************************************)
\* C14 as stated: a transcript with a heart-rate reading under any of the
\* labels 'heart rate', 'pulse', 'hr', followed by an integer below 40 or
\* above 180, is classified level 1.
C14_HeartRateAnyLabel ==
    pc = "done" =>
        \A l \in HeartRateLabels, s \in Separators, n \in HeartRates :
            (transcript = LabelledReading(l, s, n) /\ (n < 40 \/ n > 180))
                => verdict.triage_level = 1

\* C15 as stated: a transcript with an oxygen-saturation reading under any of
\* the labels 'oxygen saturation', 'o2 sat', 'spo2', followed by an integer
\* below 85, is classified level 1.
C15_SaturationAnyLabel ==
    pc = "done" =>
        \A l \in OxygenLabels, s \in Separators, n \in Saturations :
            (transcript = LabelledReading(l, s, n) /\ n < 85)
                => verdict.triage_level = 1

\* the transcripts of several readings, or of a reading after a word that
\* holds a label, in which a reading is in the critical range
CriticalAmongOthers ==
    { T_two_heart_rates, T_bp_then_heart_rate, T_two_pressures,
      T_throat_heart_rate, T_pulse_weak_heart_rate, T_three_days_saturation,
      T_hr_then_saturation }

\* C16 as stated: when at least one blood-pressure, heart-rate or
\* oxygen-saturation reading of the transcript is in the critical range, the
\* transcript is classified level 1, whatever readings or label-like words
\* come before that reading.
C16_EveryReadingTested ==
    (pc = "done" /\ transcript \in CriticalAmongOthers) => verdict.triage_level = 1

\* C17 as stated: a blood-pressure reading N/M after 'blood pressure', after
\* 'bp' or bare is classified level 1 for every N in 0..69, and a reading
\* with N >= 70 does not satisfy the Level-1 predicate, whatever M is.
C17_SystolicOnly ==
    pc = "done" =>
        \A l \in PressureLabels, n \in Systolics, m \in Diastolics :
            transcript = PressureReading(l, n, m) =>
                /\ n < 70 => verdict.triage_level = 1
                /\ n >= 70 => verdict.triage_level # 1

\* the transcripts that state an age of 65 or more as '<N> year(s) old' or
\* 'age <N>' and hold the concerning phrase 'fall'
ElderlyFallTranscripts ==
    {a \o P_fall : a \in UNION {AgeStatements(n) : n \in {m \in Ages : m >= 65}}}
        \cup {T_triage_note_elderly_fall, T_son_and_elderly_fall, T_elderly_pulseless}

\* the transcripts whose one stated age is below 65
YoungTranscripts ==
    {a \o p : a \in UNION {AgeStatements(n) : n \in {m \in Ages : m < 65}},
              p \in {P_fall, P_rash}}

\* C19 as stated: a transcript that does not satisfy the Level-1 predicate,
\* states an age N >= 65 as '<N> year(s) old' or 'age <N>' and holds a
\* concerning phrase such as 'fall' is classified level 2; with a stated age
\* below 65 the age clause does not fire.
C19_ElderlyConcerning ==
    pc = "done" =>
        /\ (transcript \in ElderlyFallTranscripts /\ ~ Holds(1))
              => verdict.triage_level = 2
        /\ transcript \in YoungTranscripts => verdict.triage_level # 2

(***************************************************************************)
(* Claims about the clauses of Level 1 and Level 2 (specification Spec)    *)
(***************************************************************************)
\* the lower-cased transcript of the call holds a phrase of the list
InTranscript(phrases) == AnyPhraseIn(phrases, lower(transcript))

\* the lower-cased text of an entity of the category holds a phrase of the list
InEntityText(category, phrases) ==
    /\ category \in DOMAIN entities
    /\ \E i \in DOMAIN entities[category] :
          /\ "text" \in DOMAIN entities[category][i]
          /\ AnyPhraseIn(phrases, lower(entities[category][i].text))

\* C18: when the transcript or the text of a SYMPTOM entity holds an
\* immediate-threat phrase, the returned level is 1; when neither does and
\* no vital sign is critical, the level is not 1, even if the text of an
\* entity of another category holds such a phrase.
C18_ThreatPhraseClause ==
    pc = "done" =>
        /\ (InTranscript(immediate_threats) \/ InEntityText("SYMPTOM", immediate_threats))
              => verdict.triage_level = 1
        /\ ( /\ ~ InTranscript(immediate_threats)
             /\ ~ InEntityText("SYMPTOM", immediate_threats)
             /\ ~ check_critical_vitals(lower(transcript)) )
              => verdict.triage_level # 1

\* C18 witness: a call whose DISEASE and MEDICATION entities read 'Cardiac
\* arrest', with no such phrase in the transcript, has returned another level
C18_Witness ==
    /\ pc = "done"
    /\ entities = E_arrest_disease
    /\ InEntityText("DISEASE", immediate_threats)
    /\ ~ InTranscript(immediate_threats)
    /\ verdict.triage_level > 1

\* one of the four clauses of Level 2 holds of the input of the call
Level2Clauses ==
    \/ InTranscript(high_risk_symptoms)
    \/ InEntityText("SYMPTOM", high_risk_symptoms)
    \/ InTranscript(high_risk_conditions)
    \/ InEntityText("DISEASE", high_risk_conditions)
    \/ InEntityText("MEDICATION", high_risk_medications)
    \/ elderly_concerning(lower(transcript))

\* C20: a call that evaluated check_esi_level_2 returned level 2 exactly when
\* one of the four clauses holds: a high-risk symptom phrase in the
\* transcript or a SYMPTOM text, a high-risk condition phrase in the
\* transcript or a DISEASE text, a high-risk medication phrase in a
\* MEDICATION text, or the age clause.  A medication phrase in the transcript
\* alone is none of them.
C20_Level2Clauses ==
    (pc = "done" /\ verdict.triage_level >= 2) =>
        /\ (verdict.triage_level = 2) <=> Level2Clauses
        /\ ( /\ InTranscript(high_risk_medications)
             /\ ~ InEntityText("MEDICATION", high_risk_medications)
             /\ ~ InTranscript(high_risk_symptoms)
             /\ ~ InEntityText("SYMPTOM", high_risk_symptoms)
             /\ ~ InTranscript(high_risk_conditions)
             /\ ~ InEntityText("DISEASE", high_risk_conditions)
             /\ ~ elderly_concerning(lower(transcript)) )
              => verdict.triage_level # 2

\* C20 witness: a call with 'patient takes warfarin' and no MEDICATION entity
\* has returned a level below 2 in acuity
C20_Witness ==
    /\ pc = "done"
    /\ transcript = T_takes_warfarin
    /\ InTranscript(high_risk_medications)
    /\ entities = E_diabetes
    /\ verdict.triage_level = 3

(***************************************************************************)
(* Claims about the clauses of Level 3 and Level 4 (specification Spec)    *)
(***************************************************************************)
\* the number of entities in the PROCEDURE bucket of the call, 0 without one
ProcedureCount ==
    IF "PROCEDURE" \in DOMAIN entities THEN Len(entities["PROCEDURE"]) ELSE 0

\* one of the clauses of Level 3 holds of the input of the call
Level3Clauses ==
    \/ InTranscript(moderate_symptoms)
    \/ InEntityText("SYMPTOM", moderate_symptoms)
    \/ InEntityText("DISEASE", chronic_conditions)
    \/ ProcedureCount >= 2

\* C21: a call that evaluated check_esi_level_3 returned level 3 exactly when
\* the transcript or a SYMPTOM text holds a moderate-symptom phrase, or a
\* DISEASE text holds a chronic-condition phrase, or the PROCEDURE bucket
\* holds at least 2 entities; one PROCEDURE entity, or a chronic-condition
\* phrase in the transcript alone, does not give level 3.
C21_Level3Clauses ==
    (pc = "done" /\ verdict.triage_level >= 3) =>
        /\ (verdict.triage_level = 3) <=> Level3Clauses
        /\ ( /\ (ProcedureCount = 1 \/ InTranscript(chronic_conditions))
             /\ ~ InTranscript(moderate_symptoms)
             /\ ~ InEntityText("SYMPTOM", moderate_symptoms)
             /\ ~ InEntityText("DISEASE", chronic_conditions)
             /\ ProcedureCount < 2 )
              => verdict.triage_level # 3

\* C21 witness: a call with one PROCEDURE entity and the transcript 'history
\* of hypertension' has returned a level other than 3
C21_Witness ==
    /\ pc = "done"
    /\ transcript = T_hypertension
    /\ InTranscript(chronic_conditions)
    /\ entities = E_one_procedure
    /\ ProcedureCount = 1
    /\ verdict.triage_level = 5

\* one of the clauses of Level 4 holds of the input of the call
Level4Clauses ==
    \/ InTranscript(simple_problems)
    \/ InEntityText("SYMPTOM", simple_problems)
    \/ InTranscript(single_resource)

\* C22: a call that evaluated check_esi_level_4 returned level 4 exactly when
\* the transcript or a SYMPTOM text holds a simple-problem phrase or the
\* transcript holds a single-resource phrase; the minimal_care list is never
\* consulted, so an input that matches that list only gets level 5 from the
\* else branch.
C22_Level4Clauses ==
    (pc = "done" /\ verdict.triage_level >= 4) =>
        /\ (verdict.triage_level = 4) <=> Level4Clauses
        /\ (InTranscript(minimal_care) /\ ~ Level4Clauses) => verdict.triage_level = 5

\* C22 witness: the call with 'needs a work note', a minimal_care phrase, has
\* returned level 5 after all four predicates
C22_Witness ==
    /\ pc = "done"
    /\ transcript = T_work_note
    /\ InTranscript(minimal_care)
    /\ evaluated = <<1, 2, 3, 4>>
    /\ verdict.triage_level = 5
    /\ verdict.color_code = "BLUE"

(***************************************************************************)
(* Claims about the three passes of merge_entities (specification          *)
(* SpecMerge)                                                              *)
(***************************************************************************)
\* the elements of the list at the places in K, in the order of the list
RECURSIVE PickUpTo(_, _, _)
PickUpTo(list, K, n) ==
    IF n = 0 THEN <<>>
    ELSE IF n \in K THEN Append(PickUpTo(list, K, n - 1), list[n])
    ELSE PickUpTo(list, K, n - 1)

Pick(list, K) == PickUpTo(list, K, Len(list))

\* the places of the model list whose entity the first pass admits
HighKept ==
    {k \in DOMAIN ml_entities :
        ml_entities[k].confidence > HighConfidence /\ ml_entities[k].label \in Categories}

\* the places of the rule list whose entity the second pass admits: the
\* entity overlaps no admitted high-confidence entity and no rule entity
\* admitted before it, of any category
RECURSIVE RuleKept(_)
RuleKept(k) ==
    /\ rule_entities[k].label \in Categories
    /\ \A i \in HighKept : ~ entities_overlap(rule_entities[k], ml_entities[i])
    /\ \A j \in 1..(k - 1) :
          RuleKept(j) => ~ entities_overlap(rule_entities[k], rule_entities[j])

\* the places of the model list whose entity the third pass admits: the
\* entity overlaps nothing admitted before it that has its label
RECURSIVE LowKept(_)
LowKept(k) ==
    /\ ml_entities[k].confidence <= HighConfidence
    /\ ml_entities[k].label \in Categories
    /\ \A i \in HighKept :
          ml_entities[i].label = ml_entities[k].label
              => ~ entities_overlap(ml_entities[k], ml_entities[i])
    /\ \A j \in DOMAIN rule_entities :
          (RuleKept(j) /\ rule_entities[j].label = ml_entities[k].label)
              => ~ entities_overlap(ml_entities[k], rule_entities[j])
    /\ \A j \in 1..(k - 1) :
          (LowKept(j) /\ ml_entities[j].label = ml_entities[k].label)
              => ~ entities_overlap(ml_entities[k], ml_entities[j])

HighPart(c) == Pick(ml_entities, {k \in HighKept : ml_entities[k].label = c})

RulePart(c) ==
    Pick(rule_entities, {k \in DOMAIN rule_entities : RuleKept(k) /\ rule_entities[k].label = c})

LowPart(c) ==
    Pick(ml_entities, {k \in DOMAIN ml_entities : LowKept(k) /\ ml_entities[k].label = c})

IsRule(entity) == entity.source = "rule-based"

IsLowModel(entity) ==
    entity.source = "transformer" /\ entity.confidence <= HighConfidence

IsHighModel(entity) ==
    entity.source = "transformer" /\ entity.confidence > HighConfidence

\* the call of example 6 has returned
Example6 ==
    /\ mpc = "returned"
    /\ ml_entities = <<M_example>>
    /\ rule_entities = <<R_example>>

\* C23: the rule entities of a bucket are, in input order, the rule entities
\* of that category that overlap no high-confidence model entity and no rule
\* entity admitted before them, of any category; they stand right after the
\* high-confidence model entities of the bucket.  Example 6 merges to a
\* SYMPTOM bucket holding the model entity only.
C23_RulePass ==
    mpc = "returned" =>
        /\ \A c \in Categories :
              /\ SelectSeq(merged[c], IsRule) = RulePart(c)
              /\ SubSeq(merged[c], Len(HighPart(c)) + 1,
                        Len(HighPart(c)) + Len(RulePart(c))) = RulePart(c)
        /\ Example6 => merged = [NewCollection EXCEPT !["SYMPTOM"] = <<M_example>>]

\* C23 witness: of two overlapping rule entities of different categories the
\* first was admitted and the second was not, behind a high-confidence model
\* entity that overlaps neither
C23_Witness ==
    /\ mpc = "returned"
    /\ Len(rule_entities) = 2
    /\ rule_entities[1].label # rule_entities[2].label
    /\ entities_overlap(rule_entities[1], rule_entities[2])
    /\ \E c \in Categories :
          /\ Len(merged[c]) = 2
          /\ IsHighModel(merged[c][1])
          /\ merged[c][2] = rule_entities[1]
          /\ ~ entities_overlap(merged[c][1], rule_entities[2])
    /\ \A c \in Categories : \A i \in DOMAIN merged[c] : merged[c][i] # rule_entities[2]

\* C24: the low-confidence model entities of a bucket (confidence <= 0.7,
\* 0.7 included) are, in input order, the ones that overlap nothing admitted
\* before them to the bucket of their own category; entities of other buckets
\* never block them.
C24_LowConfidencePass ==
    mpc = "returned" =>
        \A c \in Categories :
            /\ SelectSeq(merged[c], IsLowModel) = LowPart(c)
            /\ SubSeq(merged[c], Len(merged[c]) - Len(LowPart(c)) + 1, Len(merged[c]))
                  = LowPart(c)

\* C24 witness: a model entity of confidence exactly 0.7 was admitted although
\* it overlaps a rule entity admitted to the bucket of another category
C24_Witness ==
    /\ mpc = "returned"
    /\ \E c \in Categories, d \in Categories :
          /\ c # d
          /\ \E i \in DOMAIN merged[c], j \in DOMAIN merged[d] :
                /\ IsLowModel(merged[c][i])
                /\ merged[c][i].confidence = HighConfidence
                /\ IsRule(merged[d][j])
                /\ entities_overlap(merged[c][i], merged[d][j])

\* C25: the high-confidence model entities with a label of the five, in input
\* order, are the first entities of their bucket, whatever they overlap;
\* everything after them in the bucket is a rule entity or a low-confidence
\* model entity.
C25_HighConfidencePass ==
    mpc = "returned" =>
        \A c \in Categories :
            /\ IsPrefix(HighPart(c), merged[c])
            /\ SelectSeq(merged[c], IsHighModel) = HighPart(c)

\* C25 witness: two high-confidence model entities of one category that
\* overlap each other are both in the bucket
C25_Witness ==
    /\ mpc = "returned"
    /\ Len(ml_entities) = 2
    /\ ml_entities[1] # ml_entities[2]
    /\ entities_overlap(ml_entities[1], ml_entities[2])
    /\ \E c \in Categories : merged[c] = ml_entities /\ IsHighModel(merged[c][2])

\* the number of places of the list that hold the entity
Count(entity, list) == Cardinality({i \in DOMAIN list : list[i] = entity})

\* C26: merge_entities only filters: every entity of the merged collection is
\* an input entity with all six fields unchanged, in the bucket of its label;
\* no input entity is in the output more often than it is in the two input
\* lists; a bucket is the selected high-confidence model entities, then the
\* selected rule entities, then the selected low-confidence model entities,
\* each in input order.
C26_MergeOnlyFilters ==
    mpc = "returned" =>
        \A c \in Categories :
            /\ merged[c] = HighPart(c) \o RulePart(c) \o LowPart(c)
            /\ \A i \in DOMAIN merged[c] :
                  /\ merged[c][i].label = c
                  /\ DOMAIN merged[c][i] =
                        {"text", "label", "confidence", "start", "end", "source"}
                  /\ Count(merged[c][i], merged[c])
                        <= Count(merged[c][i], ml_entities) + Count(merged[c][i], rule_entities)

\* C26 witness: a call with two model and two rule entities returned a
\* collection that holds some of them and not all
C26_Witness ==
    /\ mpc = "returned"
    /\ Len(ml_entities) = 2
    /\ Len(rule_entities) = 2
    /\ \E c \in Categories :
          /\ Len(merged[c]) = 2
          /\ merged[c][1] = ml_entities[2]
          /\ merged[c][2] = rule_entities[2]
          /\ \A d \in Categories : d # c => merged[d] = <<>>

(***************************************************************************)
(* Claims about the pipeline manager (specifications SpecManager and        *)
(* SpecServer)                                                             *)
(***************************************************************************)
\* the condition the recycling rule names, on what a get_pipeline call saw
\* when it decided: no instance, or the instance handed out _max_usage
\* times, or more than IdleSeconds since the last hand-out
RuleSaysFresh(seen) ==
    \/ seen.pipeline = NoPipeline
    \/ seen.handed_out = _max_usage
    \/ seen.now - seen.last_used > IdleSeconds

\* the thread's get_pipeline call has returned and the thread has not yet
\* used the instance
JustReturned(t) == req[t].pc = "process"

\* what holds of every sequence of get_pipeline calls: a call returns a
\* fresh instance exactly when the rule says so and the existing one
\* otherwise, and no instance is handed out more than _max_usage times
RecyclingRule ==
    /\ handed_out <= _max_usage
    /\ _usage_count <= _max_usage
    /\ \A t \in Uploaders :
          JustReturned(t) =>
              /\ req[t].fresh <=> RuleSaysFresh(req[t].seen)
              /\ req[t].pipeline # NoPipeline
              /\ IF req[t].fresh
                 THEN req[t].pipeline = created /\ handed_out = 1 /\ _usage_count = 1
                 ELSE /\ req[t].pipeline = req[t].seen.pipeline
                      /\ handed_out = req[t].seen.handed_out + 1
                      /\ _usage_count = handed_out

\* C27 as stated: the recycling rule holds and, after any sequence of
\* get_pipeline calls, 1 <= _usage_count <= 100.
C27_UsageCountAfterAnyCalls ==
    /\ RecyclingRule
    /\ (_lock = "free" /\ outcomes # {}) =>
          (1 <= _usage_count /\ _usage_count <= _max_usage)

\* C27, amended: the recycling rule holds, _usage_count never exceeds 100,
\* and after any sequence of get_pipeline calls of which one has returned,
\* 1 <= _usage_count <= 100; as long as every call has raised (the
\* constructor of the pipeline raised), _usage_count is still 0.
C27_UsageCountAfterReturnedCall ==
    /\ RecyclingRule
    /\ (_lock = "free" /\ "returned" \in outcomes) =>
          (1 <= _usage_count /\ _usage_count <= _max_usage)
    /\ (_lock = "free" /\ "returned" \notin outcomes) => _usage_count = 0

\* C27 witness: a call found the instance handed out 100 times, less than an
\* hour after the last hand-out, and has returned a fresh one
C27_Witness ==
    \E t \in Uploaders :
        /\ JustReturned(t)
        /\ req[t].fresh
        /\ req[t].seen.handed_out = _max_usage
        /\ req[t].seen.now - req[t].seen.last_used <= IdleSeconds
        /\ _usage_count = 1

\* the positions of a request inside the try block of process_single_audio
Processing == {"validate", "transcribe", "extract", "triage", "compile"}

\* C28: under every interleaving of upload and cleanup requests, the
\* instance a request is running process_single_audio on has its models, and
\* no get_pipeline call finds the manager without its _pipeline attribute.
C28_NoCleanupUnderARequest ==
    /\ \A t \in Uploaders :
          req[t].pc \in Processing => req[t].pipeline \in intact
    /\ "AttributeError" \notin outcomes

(***************************************************************************)
(* Claims about process_single_audio and the upload endpoint               *)
(* (specification SpecUpload)                                              *)
(***************************************************************************)
StageOrder == <<"validate", "transcribe", "extract", "triage">>

\* process_single_audio has returned its record to upload_and_process
RecordReturned(t) == req[t].pc \in {"respond", "responded"} /\ req[t].result # NoRecord

\* C29: the stages run in the order validation, transcription, extraction,
\* triage, each at most once; triage runs only after validation passed,
\* transcription returned a non-empty text and extraction returned; a failed
\* stage never makes the call raise: it returns a record with status 'error'
\* and without a triage result; a record with status 'completed' carries the
\* verdict of the classifier for the transcript and the entities of its own
\* call.
C29_StagesAndErrorRecords ==
    \A t \in Uploaders :
        /\ IsPrefix(req[t].stages, StageOrder)
        /\ Len(req[t].stages) = 4 =>
              /\ validate_audio_file(req[t].upload)
              /\ req[t].transcript_text # <<>>
              /\ req[t].entities \in
                    { extract_entities(req[t].transcript_text, ml, rules) :
                        ml \in MLFound(req[t].transcript_text),
                        rules \in RulesFound(req[t].transcript_text) }
        /\ req[t].failed # "none" =>
              /\ RecordReturned(t)
              /\ req[t].result.status = "error"
              /\ "triage" \notin DOMAIN req[t].result
              /\ req[t].failed = req[t].stages[Len(req[t].stages)]
              /\ req[t].triage = NoVerdict
        /\ (RecordReturned(t) /\ req[t].failed = "none") =>
              /\ req[t].result.status = "completed"
              /\ req[t].stages = StageOrder
              /\ req[t].result.transcription.text = req[t].transcript_text
              /\ req[t].result.triage.triage_level =
                    esi_level(req[t].entities, req[t].transcript_text)
              /\ \E id \in AssessmentIds, now \in Timestamps :
                    req[t].result.triage =
                        branch_response(req[t].result.triage.triage_level, id, now)
        /\ (~ validate_audio_file(req[t].upload) /\ req[t].stages # <<>>) =>
              req[t].failed = "validate"

\* C29 witness: transcription returned an empty text and the call has
\* returned an error record without running extraction or triage
C29_Witness ==
    \E t \in Uploaders :
        /\ req[t].pc = "respond"
        /\ req[t].stages = <<"validate", "transcribe">>
        /\ req[t].failed = "transcribe"
        /\ req[t].result = error_record("Transcription failed or returned empty text")

\* C30: whenever process_single_audio has returned a record with status
\* 'error', the answer of upload_and_process is not success = true with a
\* triage level.
C30_VerdictOnlyForCompletedRun ==
    \A t \in Uploaders :
        (req[t].pc = "responded" /\ req[t].result.status = "error") =>
            ~ (req[t].response.success /\ "triage" \in DOMAIN req[t].response)

=============================================================================
